---- MODULE Spec2Model ----
(***************************************************************************)
(* A model of the rule-based core of DripScript (src/ai-ml/clothing_ai.py):*)
(* the wardrobe store, the outfit suggestion engine and the keyword        *)
(* labeler of ClothingAI.                                                  *)
(*                                                                         *)
(* Python strings on which the code performs character operations          *)
(* (lower(), substring search, split(), enum lookup by value) are tuples   *)
(* of one-character strings.  Free text that is only copied (item names,   *)
(* colors, seasons) is an atomic string.  Enum members are named by their  *)
(* Python member names ("HOT", "T_SHIRT", ...).                            *)
(***************************************************************************)
EXTENDS Integers, Sequences, FiniteSets, TLC

VARIABLES
    wardrobe,   \* OutfitSuggestionEngine.wardrobe: list of ClothingItem
    initial,    \* history: the wardrobe the engine started with
    added,      \* history: the items passed to add_clothing_item, in call order
    result,     \* the last call and what it returned ([op |-> "none"] when idle)
    locals,     \* the local variables of the last suggest_outfit call
    hf_integration, \* ClothingAI.hf_integration: its available and classifier fields
    ai_service  \* the RealAIService instance of ai_service.py: its API keys

vars == <<wardrobe, initial, added, result, locals, hf_integration, ai_service>>

---------------------------------------------------------------------------
(* Bounds of the model *)

\* how many add_clothing_item calls a behaviour makes
MaxAdds == 2

\* how many vocabulary tokens a description is made of
MaxWords == 2

\* how many cue words a request text is made of
MaxCues == 2

---------------------------------------------------------------------------
(* Python str operations *)

UpperToLower ==
    [A |-> "a", B |-> "b", C |-> "c", D |-> "d", E |-> "e", F |-> "f", G |-> "g",
     H |-> "h", I |-> "i", J |-> "j", K |-> "k", L |-> "l", M |-> "m", N |-> "n",
     O |-> "o", P |-> "p", Q |-> "q", R |-> "r", S |-> "s", T |-> "t", U |-> "u",
     V |-> "v", W |-> "w", X |-> "x", Y |-> "y", Z |-> "z"]

\* str.lower(), character by character
lower(s) ==
    [i \in 1..Len(s) |-> IF s[i] \in DOMAIN UpperToLower THEN UpperToLower[s[i]] ELSE s[i]]

\* `keyword in text` on strings: substring search
in_str(keyword, text) ==
    \E i \in 0..(Len(text) - Len(keyword)) : SubSeq(text, i + 1, i + Len(keyword)) = keyword

\* any(keyword in text for keyword in keywords)
any_in(keywords, text) ==
    \E k \in 1..Len(keywords) : in_str(keywords[k], text)

\* `x in list`
in_list(x, list) ==
    \E i \in 1..Len(list) : list[i] = x

\* sum(1 for keyword in keywords if keyword in text)
count_in(keywords, text) ==
    Cardinality({k \in 1..Len(keywords) : in_str(keywords[k], text)})

\* str.split(): the maximal runs of non-whitespace characters
whitespace == {" "}

RECURSIVE split(_)
split(s) ==
    IF s = <<>> THEN <<>>
    ELSE IF Head(s) \in whitespace THEN split(Tail(s))
    ELSE LET stops == {i \in 1..Len(s) : s[i] \in whitespace}
             end == IF stops = {} THEN Len(s) + 1
                    ELSE CHOOSE i \in stops : \A j \in stops : i <= j
         IN  <<SubSeq(s, 1, end - 1)>> \o split(SubSeq(s, end, Len(s)))

---------------------------------------------------------------------------
(* Enumerations *)

\* ClothingType members in declaration order
ClothingType ==
    <<"HOODIE", "T_SHIRT", "JEANS", "SHORTS", "JACKET", "SWEATER", "DRESS", "SKIRT",
      "PANTS", "SNEAKERS", "BOOTS", "SANDALS">>

ClothingTypeValue ==
    [HOODIE |-> "hoodie", T_SHIRT |-> "t-shirt", JEANS |-> "jeans", SHORTS |-> "shorts",
     JACKET |-> "jacket", SWEATER |-> "sweater", DRESS |-> "dress", SKIRT |-> "skirt",
     PANTS |-> "pants", SNEAKERS |-> "sneakers", BOOTS |-> "boots", SANDALS |-> "sandals"]

StyleValue ==
    [CASUAL |-> "casual", FORMAL |-> "formal", SPORTY |-> "sporty", TRENDY |-> "trendy",
     VINTAGE |-> "vintage", MINIMALIST |-> "minimalist"]

\* WeatherType members in declaration order
WeatherType ==
    <<"HOT", "WARM", "MILD", "COOL", "COLD", "RAINY", "SNOWY">>

WeatherTypeValue ==
    [HOT   |-> <<"h","o","t">>,
     WARM  |-> <<"w","a","r","m">>,
     MILD  |-> <<"m","i","l","d">>,
     COOL  |-> <<"c","o","o","l">>,
     COLD  |-> <<"c","o","l","d">>,
     RAINY |-> <<"r","a","i","n","y">>,
     SNOWY |-> <<"s","n","o","w","y">>]

\* WeatherType(value): the member with that value; ValueError when there is none
ValueError == "ValueError"

WeatherTypeOf(value) ==
    IF \E i \in 1..Len(WeatherType) : WeatherTypeValue[WeatherType[i]] = value
    THEN WeatherType[CHOOSE i \in 1..Len(WeatherType) : WeatherTypeValue[WeatherType[i]] = value]
    ELSE ValueError

---------------------------------------------------------------------------
(* ClothingItem and the sample wardrobe *)

ClothingItem(name, type, style, weather_suitability, color, season, formality_level, warmth_rating) ==
    [name |-> name, type |-> type, style |-> style,
     weather_suitability |-> weather_suitability, color |-> color, season |-> season,
     formality_level |-> formality_level, warmth_rating |-> warmth_rating]

_initialize_sample_wardrobe ==
    << ClothingItem("Basic White Tee", "T_SHIRT", "CASUAL",
                    <<"HOT", "WARM">>, "white", <<"spring", "summer">>, 3, 2),
       ClothingItem("Gray Hoodie", "HOODIE", "CASUAL",
                    <<"COOL", "COLD">>, "gray", <<"fall", "winter">>, 2, 7),
       ClothingItem("Blue Jeans", "JEANS", "CASUAL",
                    <<"MILD", "COOL">>, "blue", <<"all">>, 4, 5),
       ClothingItem("Summer Dress", "DRESS", "CASUAL",
                    <<"HOT", "WARM">>, "floral", <<"spring", "summer">>, 6, 2),
       ClothingItem("White Sneakers", "SNEAKERS", "CASUAL",
                    <<"MILD", "WARM", "HOT">>, "white", <<"all">>, 3, 4),
       ClothingItem("Navy Blazer", "JACKET", "FORMAL",
                    <<"MILD", "COOL">>, "navy", <<"all">>, 9, 5),
       ClothingItem("White Dress Shirt", "T_SHIRT", "FORMAL",
                    <<"MILD", "COOL", "WARM">>, "white", <<"all">>, 8, 3),
       ClothingItem("Black Dress Pants", "PANTS", "FORMAL",
                    <<"MILD", "COOL">>, "black", <<"all">>, 8, 4),
       ClothingItem("Black Oxford Shoes", "BOOTS", "FORMAL",
                    <<"MILD", "COOL">>, "black", <<"all">>, 9, 3),
       ClothingItem("Leather Jacket", "JACKET", "TRENDY",
                    <<"COOL">>, "black", <<"fall", "spring">>, 7, 6),
       ClothingItem("Skinny Black Jeans", "JEANS", "TRENDY",
                    <<"MILD", "COOL">>, "black", <<"all">>, 6, 4),
       ClothingItem("Winter Boots", "BOOTS", "CASUAL",
                    <<"COLD", "SNOWY">>, "brown", <<"winter">>, 4, 8),
       ClothingItem("Rain Jacket", "JACKET", "CASUAL",
                    <<"RAINY", "COOL">>, "navy", <<"all">>, 4, 6),
       ClothingItem("Cotton Shorts", "SHORTS", "CASUAL",
                    <<"HOT", "WARM">>, "khaki", <<"summer">>, 3, 1),
       ClothingItem("Wool Sweater", "SWEATER", "CASUAL",
                    <<"COLD", "COOL">>, "gray", <<"winter", "fall">>, 5, 8),
       ClothingItem("Waterproof Boots", "BOOTS", "CASUAL",
                    <<"RAINY", "COLD">>, "black", <<"all">>, 4, 7) >>

---------------------------------------------------------------------------
(* Outfit rules *)

\* outfit_rules["weather_rules"]: a dict keyed by the WeatherType member
weather_rules ==
    << [weather |-> "HOT",
        rules |-> [preferred_types |-> <<"T_SHIRT", "SHORTS", "DRESS">>,
                   avoid_types |-> <<"HOODIE", "JACKET", "BOOTS">>,
                   max_warmth |-> 4]],
       [weather |-> "COLD",
        rules |-> [preferred_types |-> <<"HOODIE", "JACKET", "BOOTS">>,
                   avoid_types |-> <<"SHORTS", "SANDALS">>,
                   min_warmth |-> 6]] >>

\* outfit_rules["vibe_rules"]: a dict keyed by the vibe string; each rule is a
\* dict in which every key is optional
vibe_rules ==
    << [vibe  |-> <<"c","a","s","u","a","l">>,
        rules |-> [preferred_styles |-> <<"CASUAL">>,
                   max_formality |-> 6,
                   avoid_types |-> <<>>]],
       [vibe  |-> <<"p","r","o","f","e","s","s","i","o","n","a","l">>,
        rules |-> [preferred_styles |-> <<"FORMAL">>,
                   min_formality |-> 7,
                   preferred_types |-> <<"JACKET", "PANTS", "T_SHIRT">>,
                   avoid_types |-> <<"HOODIE", "SHORTS">>]],
       [vibe  |-> <<"b","u","s","i","n","e","s","s">>,
        rules |-> [preferred_styles |-> <<"FORMAL">>,
                   min_formality |-> 8,
                   preferred_types |-> <<"JACKET", "PANTS", "T_SHIRT">>,
                   avoid_types |-> <<"HOODIE", "SHORTS", "JEANS">>]],
       [vibe  |-> <<"t","r","e","n","d","y">>,
        rules |-> [preferred_styles |-> <<"TRENDY">>,
                   avoid_styles |-> <<"VINTAGE">>,
                   min_formality |-> 5]],
       [vibe  |-> <<"s","p","o","r","t","y">>,
        rules |-> [preferred_styles |-> <<"SPORTY", "CASUAL">>,
                   max_formality |-> 4]] >>

\* the empty dict {}
EmptyDict == <<>>

\* variant: an unknown vibe gets the casual rule instead of the empty dict
vibe_rules_get_default_casual(vibe) ==
    IF \E i \in 1..Len(vibe_rules) : vibe_rules[i].vibe = vibe
    THEN vibe_rules[CHOOSE i \in 1..Len(vibe_rules) : vibe_rules[i].vibe = vibe].rules
    ELSE vibe_rules[1].rules

\* self.outfit_rules.get("vibe_rules", {}).get(vibe, {})
vibe_rules_get(vibe) ==
    IF \E i \in 1..Len(vibe_rules) : vibe_rules[i].vibe = vibe
    THEN vibe_rules[CHOOSE i \in 1..Len(vibe_rules) : vibe_rules[i].vibe = vibe].rules
    ELSE EmptyDict

---------------------------------------------------------------------------
(* random: each random.choice call of one suggest_outfit call consumes its own
   draw; a draw is any index into the list it is taken from *)

IndexError == [raised |-> "IndexError"]

\* random.choice(seq) with draw k; IndexError on an empty list
random_choice(seq, k) ==
    IF seq = <<>> THEN IndexError ELSE seq[((k - 1) % Len(seq)) + 1]

---------------------------------------------------------------------------
(* OutfitSuggestionEngine *)

\* variant: the weather string is looked up without lower()
weather_enum_of_case_sensitive(weather) ==
    LET parsed == WeatherTypeOf(weather)
    IN  IF parsed = ValueError THEN "MILD" ELSE parsed

\* try: WeatherType(weather.lower())  except ValueError: WeatherType.MILD
weather_enum_of(weather) ==
    LET parsed == WeatherTypeOf(lower(weather))
    IN  IF parsed = ValueError THEN "MILD" ELSE parsed

\* variant: when no item suits the weather the whole wardrobe is kept
_filter_items_by_weather_or_all(self_wardrobe, weather) ==
    IF SelectSeq(self_wardrobe, LAMBDA item : in_list(weather, item.weather_suitability)) = <<>>
    THEN self_wardrobe
    ELSE SelectSeq(self_wardrobe, LAMBDA item : in_list(weather, item.weather_suitability))

_filter_items_by_weather(self_wardrobe, weather) ==
    SelectSeq(self_wardrobe, LAMBDA item : in_list(weather, item.weather_suitability))

\* variant: the preferred styles are not looked at
passes_vibe_rules_any_style(item, rules) ==
    /\ ~("min_formality" \in DOMAIN rules /\ item.formality_level < rules.min_formality)
    /\ ~("max_formality" \in DOMAIN rules /\ item.formality_level > rules.max_formality)
    /\ ~("avoid_types" \in DOMAIN rules /\ in_list(item.type, rules.avoid_types))
    /\ ~("avoid_styles" \in DOMAIN rules /\ in_list(item.style, rules.avoid_styles))

\* the body of the first loop of _filter_items_by_vibe: TRUE when the item is
\* appended, FALSE when one of the `continue` statements is taken
passes_vibe_rules(item, rules) ==
    /\ ~("min_formality" \in DOMAIN rules /\ item.formality_level < rules.min_formality)
    /\ ~("max_formality" \in DOMAIN rules /\ item.formality_level > rules.max_formality)
    /\ ~("avoid_types" \in DOMAIN rules /\ in_list(item.type, rules.avoid_types))
    /\ ~(/\ "preferred_styles" \in DOMAIN rules
         /\ Len(rules.preferred_styles) > 0
         /\ ~in_list(item.style, rules.preferred_styles))
    /\ ~("avoid_styles" \in DOMAIN rules /\ in_list(item.style, rules.avoid_styles))

\* the vibes for which the relaxed filtering is tried
relaxed_vibes ==
    { <<"p","r","o","f","e","s","s","i","o","n","a","l">>, <<"b","u","s","i","n","e","s","s">> }

\* variant: the relaxed filtering keeps only items above 6
relaxed_filter_above_six(items) ==
    SelectSeq(items, LAMBDA item : item.formality_level > 6)

\* the second loop of _filter_items_by_vibe
relaxed_filter(items) ==
    SelectSeq(items, LAMBDA item : item.formality_level >= 6)

\* variant: the filtered list is returned even when it is empty
_filter_items_by_vibe_no_fallback(items, vibe) ==
    LET rules == vibe_rules_get(vibe)
        strict == SelectSeq(items, LAMBDA item : passes_vibe_rules(item, rules))
    IN  IF strict = <<>> /\ vibe \in relaxed_vibes
        THEN relaxed_filter(items)
        ELSE strict

_filter_items_by_vibe(items, vibe) ==
    LET rules == vibe_rules_get(vibe)
        strict == SelectSeq(items, LAMBDA item : passes_vibe_rules(item, rules))
        filtered_items ==
            IF strict = <<>> /\ vibe \in relaxed_vibes
            THEN relaxed_filter(items)
            ELSE strict
    IN  IF filtered_items # <<>> THEN filtered_items ELSE items

is_top(item) == item.type \in {"T_SHIRT", "HOODIE", "SWEATER"}
is_bottom(item) == item.type \in {"JEANS", "SHORTS", "PANTS"}
is_dress(item) == item.type = "DRESS"
is_shoes(item) == item.type \in {"SNEAKERS", "BOOTS", "SANDALS"}
is_outerwear(item) == item.type = "JACKET"
is_formal(item) == item.formality_level >= 7

\* variant: the top + bottom combination is built after a dress was chosen too
choose_top_layer_dress_and_separates(items, rnd) ==
    LET tops == SelectSeq(items, is_top)
        bottoms == SelectSeq(items, is_bottom)
        dresses == SelectSeq(items, is_dress)
        has_formal_items == Len(SelectSeq(items, is_formal)) > 0
    IN  (IF dresses # <<>> /\ (~has_formal_items \/ rnd.dress_coin)
         THEN <<random_choice(dresses, rnd.dress)>> ELSE <<>>)
        \o (IF tops # <<>> THEN <<random_choice(tops, rnd.top)>> ELSE <<>>)
        \o (IF bottoms # <<>> THEN <<random_choice(bottoms, rnd.bottom)>> ELSE <<>>)

\* variant: the coin is flipped whether or not a formal item is present
choose_top_layer_always_flips(items, rnd) ==
    LET tops == SelectSeq(items, is_top)
        bottoms == SelectSeq(items, is_bottom)
        dresses == SelectSeq(items, is_dress)
    IN  IF dresses # <<>> /\ rnd.dress_coin
        THEN <<random_choice(dresses, rnd.dress)>>
        ELSE (IF tops # <<>> THEN <<random_choice(tops, rnd.top)>> ELSE <<>>)
             \o
             (IF bottoms # <<>> THEN <<random_choice(bottoms, rnd.bottom)>> ELSE <<>>)

\* the dress / top + bottom part of _create_outfit_combination
choose_top_layer(items, rnd) ==
    LET tops == SelectSeq(items, is_top)
        bottoms == SelectSeq(items, is_bottom)
        dresses == SelectSeq(items, is_dress)
        has_formal_items == Len(SelectSeq(items, is_formal)) > 0
        formal_tops == SelectSeq(tops, is_formal)
        formal_bottoms == SelectSeq(bottoms, is_formal)
    IN  IF dresses # <<>> /\ (~has_formal_items \/ rnd.dress_coin)
        THEN <<random_choice(dresses, rnd.dress)>>
        ELSE IF has_formal_items
             THEN (IF formal_tops # <<>> THEN <<random_choice(formal_tops, rnd.top)>>
                   ELSE IF tops # <<>> THEN <<random_choice(tops, rnd.top)>>
                   ELSE <<>>)
                  \o
                  (IF formal_bottoms # <<>> THEN <<random_choice(formal_bottoms, rnd.bottom)>>
                   ELSE IF bottoms # <<>> THEN <<random_choice(bottoms, rnd.bottom)>>
                   ELSE <<>>)
             ELSE (IF tops # <<>> THEN <<random_choice(tops, rnd.top)>> ELSE <<>>)
                  \o
                  (IF bottoms # <<>> THEN <<random_choice(bottoms, rnd.bottom)>> ELSE <<>>)

\* variant: formal shoes are added and then any shoes as well
choose_shoes_formal_and_any(items, rnd) ==
    LET shoes == SelectSeq(items, is_shoes)
        has_formal_items == Len(SelectSeq(items, is_formal)) > 0
        formal_shoes == SelectSeq(shoes, is_formal)
    IN  IF shoes # <<>>
        THEN (IF has_formal_items /\ formal_shoes # <<>>
              THEN <<random_choice(formal_shoes, rnd.shoes)>> ELSE <<>>)
             \o <<random_choice(shoes, rnd.shoes)>>
        ELSE <<>>

\* variant: the shoes are picked among all shoes
choose_shoes_any(items, rnd) ==
    LET shoes == SelectSeq(items, is_shoes)
    IN  IF shoes # <<>> THEN <<random_choice(shoes, rnd.shoes)>> ELSE <<>>

\* the shoes part of _create_outfit_combination
choose_shoes(items, rnd) ==
    LET shoes == SelectSeq(items, is_shoes)
        has_formal_items == Len(SelectSeq(items, is_formal)) > 0
        formal_shoes == SelectSeq(shoes, is_formal)
    IN  IF shoes # <<>>
        THEN IF has_formal_items
             THEN IF formal_shoes # <<>>
                  THEN <<random_choice(formal_shoes, rnd.shoes)>>
                  ELSE <<random_choice(shoes, rnd.shoes)>>
             ELSE <<random_choice(shoes, rnd.shoes)>>
        ELSE <<>>

\* variant: the coin alone decides whether a jacket is added
choose_outerwear_by_coin(items, rnd) ==
    LET outerwear == SelectSeq(items, is_outerwear)
    IN  IF outerwear # <<>> /\ rnd.outer_coin
        THEN <<random_choice(outerwear, rnd.outer)>>
        ELSE <<>>

\* the outerwear part of _create_outfit_combination
choose_outerwear(items, rnd) ==
    LET outerwear == SelectSeq(items, is_outerwear)
        has_formal_items == Len(SelectSeq(items, is_formal)) > 0
        weather_needs_outerwear ==
            \E i \in 1..Len(outerwear) :
                /\ outerwear[i].type \in {"JACKET"}
                /\ \E weather \in {"COLD", "RAINY"} :
                       in_list(weather, outerwear[i].weather_suitability)
        formal_needs_outerwear ==
            has_formal_items /\ \E i \in 1..Len(outerwear) : outerwear[i].formality_level >= 7
        formal_outerwear == SelectSeq(outerwear, is_formal)
    IN  IF outerwear # <<>>
        THEN IF weather_needs_outerwear \/ formal_needs_outerwear \/ rnd.outer_coin
             THEN IF has_formal_items
                  THEN IF formal_outerwear # <<>>
                       THEN <<random_choice(formal_outerwear, rnd.outer)>>
                       ELSE <<random_choice(outerwear, rnd.outer)>>
                  ELSE <<random_choice(outerwear, rnd.outer)>>
             ELSE <<>>
        ELSE <<>>

_create_outfit_combination(items, rnd) ==
    choose_top_layer(items, rnd) \o choose_shoes(items, rnd) \o choose_outerwear(items, rnd)

\* ". ".join(reasons) + ".", kept as the list of its sentences
_generate_outfit_reasoning(outfit, weather, vibe) ==
    [i \in 1..Len(outfit) |-> [item |-> outfit[i].name, is_perfect_for |-> weather]]
        \o << [matches_vibe |-> vibe] >>

\* a Python float that is the quotient of two ints, kept exact
ZeroDivisionError == [raised |-> "ZeroDivisionError"]

true_div(n, d) ==
    IF d = 0 THEN ZeroDivisionError ELSE [num |-> n, den |-> d]

\* variant: the empty outfit is not special-cased
_calculate_outfit_confidence_unguarded(outfit, weather, vibe) ==
    true_div(Cardinality({i \in 1..Len(outfit) :
                              in_list(weather, outfit[i].weather_suitability)}),
             Len(outfit))

_calculate_outfit_confidence(outfit, weather, vibe) ==
    IF outfit = <<>>
    THEN [num |-> 0, den |-> 1]
    ELSE true_div(Cardinality({i \in 1..Len(outfit) :
                                   in_list(weather, outfit[i].weather_suitability)}),
                  Len(outfit))

\* variant: a work occasion keeps the formal items only
suggest_outfit_for_occasion(self_wardrobe, weather, vibe, occasion, rnd) ==
    LET weather_enum == weather_enum_of(weather)
        weather_items == _filter_items_by_weather(self_wardrobe, weather_enum)
        vibe_items == _filter_items_by_vibe(weather_items, lower(vibe))
        suitable_items == IF occasion = "work" THEN SelectSeq(vibe_items, is_formal)
                          ELSE vibe_items
        outfit == _create_outfit_combination(suitable_items, rnd)
    IN  [raised |-> "none",
         locals |-> [weather_enum |-> weather_enum, weather_items |-> weather_items,
                     suitable_items |-> suitable_items, outfit |-> outfit],
         ret |-> [outfit |-> [i \in 1..Len(outfit) |-> outfit[i].name],
                  items_details |->
                      [i \in 1..Len(outfit) |->
                          [name |-> outfit[i].name,
                           type |-> ClothingTypeValue[outfit[i].type],
                           style |-> StyleValue[outfit[i].style],
                           color |-> outfit[i].color]],
                  reasoning |-> _generate_outfit_reasoning(outfit, weather, vibe),
                  weather |-> weather,
                  vibe |-> vibe,
                  confidence |-> _calculate_outfit_confidence(outfit, weather_enum, vibe)]]

\* suggest_outfit: the returned dict, the exception it raised ("none" when it
\* returned) and its local variables
suggest_outfit(self_wardrobe, weather, vibe, occasion, rnd) ==
    LET weather_enum == weather_enum_of(weather)
        weather_items == _filter_items_by_weather(self_wardrobe, weather_enum)
        suitable_items == _filter_items_by_vibe(weather_items, lower(vibe))
        outfit == _create_outfit_combination(suitable_items, rnd)
        loc == [weather_enum |-> weather_enum, weather_items |-> weather_items,
                suitable_items |-> suitable_items, outfit |-> outfit]
    IN  IF \E i \in 1..Len(outfit) : outfit[i] = IndexError
        THEN [raised |-> "IndexError", locals |-> loc]
        ELSE LET confidence == _calculate_outfit_confidence(outfit, weather_enum, vibe)
             IN  IF confidence = ZeroDivisionError
                 THEN [raised |-> "ZeroDivisionError", locals |-> loc]
                 ELSE [raised |-> "none",
                       locals |-> loc,
                       ret |-> [outfit |-> [i \in 1..Len(outfit) |-> outfit[i].name],
                                items_details |->
                                    [i \in 1..Len(outfit) |->
                                        [name |-> outfit[i].name,
                                         type |-> ClothingTypeValue[outfit[i].type],
                                         style |-> StyleValue[outfit[i].style],
                                         color |-> outfit[i].color]],
                                reasoning |-> _generate_outfit_reasoning(outfit, weather, vibe),
                                weather |-> weather,
                                vibe |-> vibe,
                                confidence |-> confidence]]

---------------------------------------------------------------------------
(* ClothingLabeler *)

\* self.clothing_keywords, in insertion order
clothing_keywords ==
    << [type |-> "HOODIE", keywords |->
           << <<"h","o","o","d","i","e">>, <<"h","o","o","d","e","d">>, <<"p","u","l","l","o","v","e","r">> >>],
       [type |-> "T_SHIRT", keywords |->
           << <<"t","-","s","h","i","r","t">>, <<"t","e","e">>, <<"s","h","i","r","t">>, <<"t","o","p">> >>],
       [type |-> "JEANS", keywords |->
           << <<"j","e","a","n","s">>, <<"d","e","n","i","m">> >>],
       [type |-> "SHORTS", keywords |->
           << <<"s","h","o","r","t","s">>, <<"s","h","o","r","t"," ","p","a","n","t","s">> >>],
       [type |-> "JACKET", keywords |->
           << <<"j","a","c","k","e","t">>, <<"b","l","a","z","e","r">>, <<"c","o","a","t">> >>],
       [type |-> "SWEATER", keywords |->
           << <<"s","w","e","a","t","e","r">>, <<"j","u","m","p","e","r">>, <<"c","a","r","d","i","g","a","n">> >>],
       [type |-> "DRESS", keywords |->
           << <<"d","r","e","s","s">>, <<"g","o","w","n">> >>],
       [type |-> "SKIRT", keywords |->
           << <<"s","k","i","r","t">>, <<"m","i","n","i">>, <<"m","a","x","i">> >>],
       [type |-> "PANTS", keywords |->
           << <<"p","a","n","t","s">>, <<"t","r","o","u","s","e","r","s">>, <<"s","l","a","c","k","s">> >>],
       [type |-> "SNEAKERS", keywords |->
           << <<"s","n","e","a","k","e","r","s">>, <<"t","r","a","i","n","e","r","s">>, <<"a","t","h","l","e","t","i","c"," ","s","h","o","e","s">> >>],
       [type |-> "BOOTS", keywords |->
           << <<"b","o","o","t","s">>, <<"a","n","k","l","e"," ","b","o","o","t","s">>, <<"h","i","k","i","n","g"," ","b","o","o","t","s">> >>],
       [type |-> "SANDALS", keywords |->
           << <<"s","a","n","d","a","l","s">>, <<"f","l","i","p"," ","f","l","o","p","s">>, <<"s","l","i","d","e","s">> >>] >>

\* self.style_keywords, in insertion order
style_keywords ==
    << [style |-> "CASUAL", keywords |->
           << <<"c","a","s","u","a","l">>, <<"r","e","l","a","x","e","d">>, <<"c","o","m","f","o","r","t","a","b","l","e">>, <<"e","v","e","r","y","d","a","y">> >>],
       [style |-> "FORMAL", keywords |->
           << <<"f","o","r","m","a","l">>, <<"b","u","s","i","n","e","s","s">>, <<"p","r","o","f","e","s","s","i","o","n","a","l">>, <<"e","l","e","g","a","n","t">> >>],
       [style |-> "SPORTY", keywords |->
           << <<"s","p","o","r","t","y">>, <<"a","t","h","l","e","t","i","c">>, <<"a","c","t","i","v","e">>, <<"g","y","m">> >>],
       [style |-> "TRENDY", keywords |->
           << <<"t","r","e","n","d","y">>, <<"f","a","s","h","i","o","n","a","b","l","e">>, <<"s","t","y","l","i","s","h">>, <<"m","o","d","e","r","n">> >>],
       [style |-> "VINTAGE", keywords |->
           << <<"v","i","n","t","a","g","e">>, <<"r","e","t","r","o">>, <<"c","l","a","s","s","i","c">>, <<"o","l","d","-","s","c","h","o","o","l">> >>],
       [style |-> "MINIMALIST", keywords |->
           << <<"m","i","n","i","m","a","l","i","s","t">>, <<"s","i","m","p","l","e">>, <<"c","l","e","a","n">>, <<"b","a","s","i","c">> >>] >>

\* weather_keywords of _predict_weather_suitability, in insertion order
weather_keywords ==
    << [weather |-> "HOT", keywords |->
           << <<"s","u","m","m","e","r">>, <<"h","o","t">>, <<"b","r","e","a","t","h","a","b","l","e">>, <<"l","i","g","h","t">>, <<"c","o","o","l","i","n","g">> >>],
       [weather |-> "WARM", keywords |->
           << <<"w","a","r","m">>, <<"s","p","r","i","n","g">>, <<"l","i","g","h","t">> >>],
       [weather |-> "MILD", keywords |->
           << <<"m","i","l","d">>, <<"t","r","a","n","s","i","t","i","o","n","a","l">>, <<"l","a","y","e","r","i","n","g">> >>],
       [weather |-> "COOL", keywords |->
           << <<"c","o","o","l">>, <<"f","a","l","l">>, <<"a","u","t","u","m","n">>, <<"l","i","g","h","t"," ","j","a","c","k","e","t">> >>],
       [weather |-> "COLD", keywords |->
           << <<"w","i","n","t","e","r">>, <<"c","o","l","d">>, <<"t","h","i","c","k">>, <<"i","n","s","u","l","a","t","e","d">>, <<"w","a","r","m">> >>],
       [weather |-> "RAINY", keywords |->
           << <<"w","a","t","e","r","p","r","o","o","f">>, <<"r","a","i","n">>, <<"w","a","t","e","r","-","r","e","s","i","s","t","a","n","t">> >>],
       [weather |-> "SNOWY", keywords |->
           << <<"s","n","o","w">>, <<"i","n","s","u","l","a","t","e","d">>, <<"t","h","e","r","m","a","l">>, <<"h","e","a","v","y">> >>] >>

formal_keywords ==
    << <<"f","o","r","m","a","l">>, <<"b","u","s","i","n","e","s","s">>, <<"p","r","o","f","e","s","s","i","o","n","a","l">>, <<"s","u","i","t">>, <<"d","r","e","s","s"," ","s","h","i","r","t">> >>

casual_keywords ==
    << <<"c","a","s","u","a","l">>, <<"r","e","l","a","x","e","d">>, <<"h","o","o","d","i","e">>, <<"j","e","a","n","s">>, <<"t","-","s","h","i","r","t">> >>

warm_keywords ==
    << <<"t","h","i","c","k">>, <<"i","n","s","u","l","a","t","e","d">>, <<"w","o","o","l">>, <<"f","l","e","e","c","e">>, <<"d","o","w","n">>, <<"w","i","n","t","e","r">> >>

cool_keywords ==
    << <<"l","i","g","h","t">>, <<"b","r","e","a","t","h","a","b","l","e">>, <<"c","o","t","t","o","n">>, <<"l","i","n","e","n">>, <<"s","u","m","m","e","r">> >>

\* the words of the first default of _predict_weather_suitability
cool_cold_words ==
    << <<"h","o","o","d","i","e">>, <<"s","w","e","a","t","e","r">>, <<"j","a","c","k","e","t">> >>

\* the words of its second default
hot_warm_words ==
    << <<"t","-","s","h","i","r","t">>, <<"s","h","o","r","t","s">>, <<"s","a","n","d","a","l","s">> >>

\* Python None
None == "None"

\* variant: the loop has no break, so the last matching type wins
detect_type_last_match(description_lower) ==
    IF \E i \in 1..Len(clothing_keywords) :
           any_in(clothing_keywords[i].keywords, description_lower)
    THEN LET last == CHOOSE i \in 1..Len(clothing_keywords) :
                         /\ any_in(clothing_keywords[i].keywords, description_lower)
                         /\ \A j \in (i + 1)..Len(clothing_keywords) :
                                ~any_in(clothing_keywords[j].keywords, description_lower)
         IN  clothing_keywords[last].type
    ELSE None

\* variant: a keyword must be a whole word of the description
detect_type_whole_words(description_lower) ==
    LET words == split(description_lower)
        hit(i) == \E k \in 1..Len(clothing_keywords[i].keywords) :
                      in_list(clothing_keywords[i].keywords[k], words)
    IN  IF \E i \in 1..Len(clothing_keywords) : hit(i)
        THEN clothing_keywords[CHOOSE i \in 1..Len(clothing_keywords) :
                                   hit(i) /\ \A j \in 1..(i - 1) : ~hit(j)].type
        ELSE None

\* the type detection loop of label_clothing_from_text: the first type, in
\* table order, one of whose keywords occurs; None when the loop ends without
\* a break
detect_type(description_lower) ==
    IF \E i \in 1..Len(clothing_keywords) :
           any_in(clothing_keywords[i].keywords, description_lower)
    THEN LET first == CHOOSE i \in 1..Len(clothing_keywords) :
                          /\ any_in(clothing_keywords[i].keywords, description_lower)
                          /\ \A j \in 1..(i - 1) :
                                 ~any_in(clothing_keywords[j].keywords, description_lower)
         IN  clothing_keywords[first].type
    ELSE None

\* the style detection loop: every style one of whose keywords occurs
detect_styles(description_lower) ==
    LET hit == SelectSeq(style_keywords,
                         LAMBDA entry : any_in(entry.keywords, description_lower))
    IN  [i \in 1..Len(hit) |-> hit[i].style]

\* variant: the two defaults are tried in the other order
_predict_weather_suitability_hot_first(description) ==
    LET hit == SelectSeq(weather_keywords,
                         LAMBDA entry : any_in(entry.keywords, description))
        suitable_weather == [i \in 1..Len(hit) |-> hit[i].weather]
    IN  IF suitable_weather = <<>>
        THEN IF any_in(hot_warm_words, description) THEN <<"HOT", "WARM">>
             ELSE IF any_in(cool_cold_words, description) THEN <<"COOL", "COLD">>
             ELSE <<"MILD">>
        ELSE suitable_weather

_predict_weather_suitability(description) ==
    LET hit == SelectSeq(weather_keywords,
                         LAMBDA entry : any_in(entry.keywords, description))
        suitable_weather == [i \in 1..Len(hit) |-> hit[i].weather]
    IN  IF suitable_weather = <<>>
        THEN IF any_in(cool_cold_words, description) THEN <<"COOL", "COLD">>
             ELSE IF any_in(hot_warm_words, description) THEN <<"HOT", "WARM">>
             ELSE <<"MILD">>
        ELSE suitable_weather

min2(a, b) == IF a < b THEN a ELSE b
max2(a, b) == IF a > b THEN a ELSE b

\* variant: more formal keywords lower the score of a formal text
_predict_formality_falling(description) ==
    LET formal_score == count_in(formal_keywords, description)
        casual_score == count_in(casual_keywords, description)
    IN  IF formal_score > casual_score THEN max2(10 - formal_score, 7)
        ELSE IF casual_score > formal_score THEN max2(3 - casual_score, 1)
        ELSE 5

\* variant: the formal score is not capped
_predict_formality_uncapped(description) ==
    LET formal_score == count_in(formal_keywords, description)
        casual_score == count_in(casual_keywords, description)
    IN  IF formal_score > casual_score THEN 7 + formal_score
        ELSE IF casual_score > formal_score THEN max2(3 - casual_score, 1)
        ELSE 5

_predict_formality(description) ==
    LET formal_score == count_in(formal_keywords, description)
        casual_score == count_in(casual_keywords, description)
    IN  IF formal_score > casual_score THEN min2(7 + formal_score, 10)
        ELSE IF casual_score > formal_score THEN max2(3 - casual_score, 1)
        ELSE 5

_predict_warmth(description) ==
    LET warm_score == count_in(warm_keywords, description)
        cool_score == count_in(cool_keywords, description)
        base_warmth == 5
    IN  max2(1, min2(10, base_warmth + warm_score - cool_score))

\* all_keywords of _calculate_confidence
all_keywords ==
    UNION {{clothing_keywords[i].keywords[k] : k \in 1..Len(clothing_keywords[i].keywords)} :
               i \in 1..Len(clothing_keywords)}
    \cup
    UNION {{style_keywords[i].keywords[k] : k \in 1..Len(style_keywords[i].keywords)} :
               i \in 1..Len(style_keywords)}

\* variant: the word count divides as it is
_calculate_confidence_unguarded(description) ==
    LET words == split(description)
        total_keywords == Len(words)
        matched_keywords == Cardinality({i \in 1..Len(words) : words[i] \in all_keywords})
        ratio == true_div(matched_keywords, total_keywords)
    IN  IF ratio = ZeroDivisionError THEN ZeroDivisionError
        ELSE IF ratio.num * 2 >= ratio.den THEN [num |-> 1, den |-> 1]
        ELSE [num |-> ratio.num * 2, den |-> ratio.den]

\* min(1.0, matched_keywords / max(1, total_keywords) * 2), kept exact
_calculate_confidence(description) ==
    LET words == split(description)
        total_keywords == Len(words)
        matched_keywords == Cardinality({i \in 1..Len(words) : words[i] \in all_keywords})
        ratio == true_div(matched_keywords, max2(1, total_keywords))
    IN  IF ratio = ZeroDivisionError THEN ZeroDivisionError
        ELSE IF ratio.num * 2 >= ratio.den THEN [num |-> 1, den |-> 1]
        ELSE [num |-> ratio.num * 2, den |-> ratio.den]

label_clothing_from_text(description) ==
    LET description_lower == lower(description)
        detected_type == detect_type(description_lower)
        detected_styles == detect_styles(description_lower)
        weather_suitability == _predict_weather_suitability(description_lower)
        formality == _predict_formality(description_lower)
        warmth == _predict_warmth(description_lower)
    IN  [type |-> IF detected_type # None THEN ClothingTypeValue[detected_type] ELSE "unknown",
         styles |-> [i \in 1..Len(detected_styles) |-> StyleValue[detected_styles[i]]],
         weather_suitability |->
             [i \in 1..Len(weather_suitability) |-> WeatherTypeValue[weather_suitability[i]]],
         formality_level |-> formality,
         warmth_rating |-> warmth,
         confidence |-> _calculate_confidence(description_lower)]

---------------------------------------------------------------------------
(* HuggingFaceIntegration *)

\* weather_patterns of _extract_weather_from_text, in insertion order
weather_patterns ==
    << [weather |-> <<"h","o","t">>, keywords |->
           << <<"h","o","t">>, <<"s","u","n","n","y">>, <<"w","a","r","m">>, <<"s","u","m","m","e","r">>, <<"h","e","a","t">> >>],
       [weather |-> <<"c","o","l","d">>, keywords |->
           << <<"c","o","l","d">>, <<"w","i","n","t","e","r">>, <<"f","r","e","e","z","i","n","g">>, <<"c","h","i","l","l","y">>, <<"s","n","o","w">> >>],
       [weather |-> <<"r","a","i","n","y">>, keywords |->
           << <<"r","a","i","n">>, <<"w","e","t">>, <<"d","r","i","z","z","l","e">>, <<"s","t","o","r","m">>, <<"u","m","b","r","e","l","l","a">> >>],
       [weather |-> <<"m","i","l","d">>, keywords |->
           << <<"m","i","l","d">>, <<"p","l","e","a","s","a","n","t">>, <<"m","o","d","e","r","a","t","e">>, <<"s","p","r","i","n","g">>, <<"f","a","l","l">> >>] >>

\* vibe_patterns of _extract_vibe_from_text, in insertion order
vibe_patterns ==
    << [vibe |-> <<"b","u","s","i","n","e","s","s">>, keywords |->
           << <<"b","u","s","i","n","e","s","s">>, <<"m","e","e","t","i","n","g">>, <<"p","r","e","s","e","n","t","a","t","i","o","n">>, <<"c","o","r","p","o","r","a","t","e">>, <<"e","x","e","c","u","t","i","v","e">> >>],
       [vibe |-> <<"p","r","o","f","e","s","s","i","o","n","a","l">>, keywords |->
           << <<"p","r","o","f","e","s","s","i","o","n","a","l">>, <<"w","o","r","k">>, <<"o","f","f","i","c","e">>, <<"f","o","r","m","a","l">> >>],
       [vibe |-> <<"c","a","s","u","a","l">>, keywords |->
           << <<"c","a","s","u","a","l">>, <<"r","e","l","a","x","e","d">>, <<"c","o","m","f","o","r","t","a","b","l","e">>, <<"l","a","i","d","-","b","a","c","k">>, <<"e","v","e","r","y","d","a","y">> >>],
       [vibe |-> <<"t","r","e","n","d","y">>, keywords |->
           << <<"t","r","e","n","d","y">>, <<"s","t","y","l","i","s","h">>, <<"f","a","s","h","i","o","n","a","b","l","e">>, <<"h","i","p">>, <<"c","o","o","l">>, <<"m","o","d","e","r","n">> >>],
       [vibe |-> <<"s","p","o","r","t","y">>, keywords |->
           << <<"s","p","o","r","t","y">>, <<"a","t","h","l","e","t","i","c">>, <<"g","y","m">>, <<"w","o","r","k","o","u","t">>, <<"a","c","t","i","v","e">>, <<"e","x","e","r","c","i","s","e">> >>] >>

\* occasion_patterns of _extract_occasion_from_text, in insertion order
occasion_patterns ==
    << [occasion |-> "date", keywords |->
           << <<"d","a","t","e">>, <<"r","o","m","a","n","t","i","c">>, <<"d","i","n","n","e","r">>, <<"r","e","s","t","a","u","r","a","n","t">> >>],
       [occasion |-> "work", keywords |->
           << <<"w","o","r","k">>, <<"o","f","f","i","c","e">>, <<"m","e","e","t","i","n","g">>, <<"p","r","e","s","e","n","t","a","t","i","o","n">> >>],
       [occasion |-> "party", keywords |->
           << <<"p","a","r","t","y">>, <<"c","e","l","e","b","r","a","t","i","o","n">>, <<"e","v","e","n","t">>, <<"n","i","g","h","t"," ","o","u","t">> >>],
       [occasion |-> "casual", keywords |->
           << <<"e","v","e","r","y","d","a","y">>, <<"g","e","n","e","r","a","l">>, <<"n","o","r","m","a","l">>, <<"r","e","g","u","l","a","r">> >>] >>

\* the position of the first entry of a pattern table one of whose keywords
\* occurs in the text; 0 when the loop ends without a return
first_pattern(patterns, text_lower) ==
    IF \E i \in 1..Len(patterns) : any_in(patterns[i].keywords, text_lower)
    THEN CHOOSE i \in 1..Len(patterns) :
             /\ any_in(patterns[i].keywords, text_lower)
             /\ \A j \in 1..(i - 1) : ~any_in(patterns[j].keywords, text_lower)
    ELSE 0

_extract_weather_from_text(text) ==
    LET text_lower == lower(text)
        hit == first_pattern(weather_patterns, text_lower)
    IN  IF hit # 0 THEN weather_patterns[hit].weather ELSE <<"m","i","l","d">>

_extract_vibe_from_text(text) ==
    LET text_lower == lower(text)
        hit == first_pattern(vibe_patterns, text_lower)
    IN  IF hit # 0 THEN vibe_patterns[hit].vibe ELSE <<"c","a","s","u","a","l">>

_extract_occasion_from_text(text) ==
    LET text_lower == lower(text)
        hit == first_pattern(occasion_patterns, text_lower)
    IN  IF hit # 0 THEN occasion_patterns[hit].occasion ELSE "general"

\* the states __init__ leaves the integration in: transformers missing or the
\* pipeline failing to load (not available, no classifier), or a loaded
\* sentiment pipeline
HuggingFaceIntegrations ==
    { [available |-> FALSE, classifier |-> None],
      [available |-> TRUE, classifier |-> "pipeline"] }

\* what self.classifier(request_text)[0] does in one call: it returns a
\* sentiment with one of the two labels of the pipeline, or raises; an
\* integration without a classifier does not call it
ClassifierOutcomes(self) ==
    IF self.classifier = None THEN {"not called"} ELSE {"POSITIVE", "NEGATIVE", "raises"}

\* analyze_outfit_request: the dict it returns
analyze_outfit_request(self, request_text, classifier_outcome) ==
    IF ~self.available
    THEN [error |-> "Hugging Face integration not available"]
    ELSE IF self.classifier # None /\ classifier_outcome = "raises"
    THEN [error |-> "Analysis failed"]
    ELSE [weather |-> _extract_weather_from_text(request_text),
          vibe |-> _extract_vibe_from_text(request_text),
          occasion |-> _extract_occasion_from_text(request_text),
          sentiment |-> IF self.classifier # None
                        THEN [label |-> classifier_outcome]
                        ELSE None,
          original_request |-> request_text]

---------------------------------------------------------------------------
(* ClothingAI: requests in natural language *)

\* the word lists of the weather detection of _fallback_text_parsing, by the
\* weather each one selects
weather_words ==
    [hot |-> << <<"h","o","t">>, <<"w","a","r","m">>, <<"s","u","m","m","e","r">>, <<"s","u","n","n","y">>, <<"b","e","a","c","h">> >>,
     cold |-> << <<"c","o","l","d">>, <<"w","i","n","t","e","r">>, <<"c","h","i","l","l","y">>, <<"f","r","e","e","z","i","n","g">>, <<"s","n","o","w">> >>,
     rainy |-> << <<"r","a","i","n">>, <<"w","e","t">>, <<"r","a","i","n","y">>, <<"d","r","i","z","z","l","e">>, <<"s","t","o","r","m">> >>,
     cool |-> << <<"c","o","o","l">>, <<"f","a","l","l">>, <<"a","u","t","u","m","n">> >>]

\* the word lists of its vibe detection: the list of the first test, the list
\* that tells business from professional within it, and the lists of the
\* four later tests
vibe_words ==
    [business_or_professional |-> << <<"b","u","s","i","n","e","s","s">>, <<"m","e","e","t","i","n","g">>, <<"p","r","e","s","e","n","t","a","t","i","o","n">>, <<"o","f","f","i","c","e">>, <<"f","o","r","m","a","l">>, <<"s","u","i","t">> >>,
     business |-> << <<"b","u","s","i","n","e","s","s">>, <<"m","e","e","t","i","n","g">>, <<"p","r","e","s","e","n","t","a","t","i","o","n">> >>,
     professional |-> << <<"p","r","o","f","e","s","s","i","o","n","a","l">>, <<"w","o","r","k">> >>,
     trendy |-> << <<"t","r","e","n","d","y">>, <<"s","t","y","l","i","s","h">>, <<"f","a","s","h","i","o","n","a","b","l","e">>, <<"h","i","p">>, <<"c","o","o","l">> >>,
     sporty |-> << <<"s","p","o","r","t","y">>, <<"g","y","m">>, <<"w","o","r","k","o","u","t">>, <<"e","x","e","r","c","i","s","e">>, <<"a","t","h","l","e","t","i","c">> >>,
     casual |-> << <<"c","a","s","u","a","l">>, <<"r","e","l","a","x","e","d">>, <<"c","o","m","f","o","r","t","a","b","l","e">>, <<"e","v","e","r","y","d","a","y">> >>]

\* variant: the cold words are tried before the hot words
fallback_weather_cold_first(text_lower) ==
    IF any_in(weather_words.cold, text_lower) THEN <<"c","o","l","d">>
    ELSE IF any_in(weather_words.hot, text_lower) THEN <<"h","o","t">>
    ELSE IF any_in(weather_words.rainy, text_lower) THEN <<"r","a","i","n","y">>
    ELSE IF any_in(weather_words.cool, text_lower) THEN <<"c","o","o","l">>
    ELSE <<"m","i","l","d">>

\* the weather detection of _fallback_text_parsing
fallback_weather(text_lower) ==
    IF any_in(weather_words.hot, text_lower) THEN <<"h","o","t">>
    ELSE IF any_in(weather_words.cold, text_lower) THEN <<"c","o","l","d">>
    ELSE IF any_in(weather_words.rainy, text_lower) THEN <<"r","a","i","n","y">>
    ELSE IF any_in(weather_words.cool, text_lower) THEN <<"c","o","o","l">>
    ELSE <<"m","i","l","d">>

\* variant: every text of the first group is a business request
fallback_vibe_always_business(text_lower) ==
    IF any_in(vibe_words.business_or_professional, text_lower) THEN <<"b","u","s","i","n","e","s","s">>
    ELSE IF any_in(vibe_words.professional, text_lower) THEN <<"p","r","o","f","e","s","s","i","o","n","a","l">>
    ELSE IF any_in(vibe_words.trendy, text_lower) THEN <<"t","r","e","n","d","y">>
    ELSE IF any_in(vibe_words.sporty, text_lower) THEN <<"s","p","o","r","t","y">>
    ELSE IF any_in(vibe_words.casual, text_lower) THEN <<"c","a","s","u","a","l">>
    ELSE <<"c","a","s","u","a","l">>

\* the vibe detection of _fallback_text_parsing
fallback_vibe(text_lower) ==
    IF any_in(vibe_words.business_or_professional, text_lower)
    THEN IF any_in(vibe_words.business, text_lower) THEN <<"b","u","s","i","n","e","s","s">>
         ELSE <<"p","r","o","f","e","s","s","i","o","n","a","l">>
    ELSE IF any_in(vibe_words.professional, text_lower) THEN <<"p","r","o","f","e","s","s","i","o","n","a","l">>
    ELSE IF any_in(vibe_words.trendy, text_lower) THEN <<"t","r","e","n","d","y">>
    ELSE IF any_in(vibe_words.sporty, text_lower) THEN <<"s","p","o","r","t","y">>
    ELSE IF any_in(vibe_words.casual, text_lower) THEN <<"c","a","s","u","a","l">>
    ELSE <<"c","a","s","u","a","l">>

\* _fallback_text_parsing: suggest_outfit(weather, vibe), whose occasion
\* parameter takes its default "general"; the outcome of the call and the
\* arguments it was made with
_fallback_text_parsing(self_wardrobe, text, rnd) ==
    LET text_lower == lower(text)
        returned(weather, vibe, call) ==
            [raised |-> call.raised,
             locals |-> [parser |-> "_fallback_text_parsing",
                         weather |-> weather, vibe |-> vibe, occasion |-> "general",
                         suitable_items |-> call.locals.suitable_items],
             ret |-> IF call.raised = "none" THEN call.ret ELSE None]
        parsed(weather, vibe) ==
            returned(weather, vibe, suggest_outfit(self_wardrobe, weather, vibe, "general", rnd))
    IN  parsed(fallback_weather(text_lower), fallback_vibe(text_lower))

\* variant: the error dict of the analysis is handed to the caller
suggest_outfit_from_text_error_returned(self_wardrobe, self_hf_integration, request_text, classifier_outcome, rnd) ==
    LET failed(analysis) ==
            [raised |-> "none",
             locals |-> [parser |-> "analyze_outfit_request", analysis |-> analysis,
                         suitable_items |-> <<>>],
             ret |-> analysis]
        analyzed(analysis, call) ==
            [raised |-> call.raised,
             locals |-> [parser |-> "analyze_outfit_request", analysis |-> analysis,
                         weather |-> analysis.weather, vibe |-> analysis.vibe,
                         occasion |-> analysis.occasion,
                         suitable_items |-> call.locals.suitable_items],
             ret |-> IF call.raised = "none"
                     THEN [natural_language_analysis |-> analysis] @@ call.ret
                     ELSE None]
        suggested(analysis) ==
            analyzed(analysis, suggest_outfit(self_wardrobe, analysis.weather, analysis.vibe,
                                              analysis.occasion, rnd))
        available(analysis) ==
            IF "error" \in DOMAIN analysis THEN failed(analysis) ELSE suggested(analysis)
    IN  IF self_hf_integration.available
        THEN available(analyze_outfit_request(self_hf_integration, request_text,
                                              classifier_outcome))
        ELSE _fallback_text_parsing(self_wardrobe, request_text, rnd)

\* suggest_outfit_from_text: the outcome of the call, the parser that chose the
\* arguments of suggest_outfit, and those arguments
suggest_outfit_from_text(self_wardrobe, self_hf_integration, request_text, classifier_outcome, rnd) ==
    LET failed(analysis, fallback) ==
            [raised |-> fallback.raised,
             locals |-> [analysis |-> analysis] @@ fallback.locals,
             ret |-> fallback.ret]
        analyzed(analysis, call) ==
            [raised |-> call.raised,
             locals |-> [parser |-> "analyze_outfit_request", analysis |-> analysis,
                         weather |-> analysis.weather, vibe |-> analysis.vibe,
                         occasion |-> analysis.occasion,
                         suitable_items |-> call.locals.suitable_items],
             ret |-> IF call.raised = "none"
                     THEN [natural_language_analysis |-> analysis] @@ call.ret
                     ELSE None]
        suggested(analysis) ==
            analyzed(analysis, suggest_outfit(self_wardrobe, analysis.weather, analysis.vibe,
                                              analysis.occasion, rnd))
        available(analysis) ==
            IF "error" \in DOMAIN analysis
            THEN failed(analysis, _fallback_text_parsing(self_wardrobe, request_text, rnd))
            ELSE suggested(analysis)
    IN  IF self_hf_integration.available
        THEN available(analyze_outfit_request(self_hf_integration, request_text,
                                              classifier_outcome))
        ELSE _fallback_text_parsing(self_wardrobe, request_text, rnd)

---------------------------------------------------------------------------
(* ClothingAI: the wardrobe store *)

\* variant: the item is inserted at the front
add_clothing_item_front(self_wardrobe, item) ==
    <<item>> \o self_wardrobe

\* self.suggestion_engine.wardrobe.append(item)
add_clothing_item(self_wardrobe, item) ==
    Append(self_wardrobe, item)

get_wardrobe_summary(self_wardrobe) ==
    LET n == Len(self_wardrobe)
        type_keys == {ClothingTypeValue[self_wardrobe[i].type] : i \in 1..n}
        style_keys == {StyleValue[self_wardrobe[i].style] : i \in 1..n}
    IN  [total_items |-> n,
         types_distribution |->
             [t \in type_keys |->
                 Cardinality({i \in 1..n : ClothingTypeValue[self_wardrobe[i].type] = t})],
         styles_distribution |->
             [s \in style_keys |->
                 Cardinality({i \in 1..n : StyleValue[self_wardrobe[i].style] = s})],
         items |-> [i \in 1..n |->
                       [name |-> self_wardrobe[i].name,
                        type |-> ClothingTypeValue[self_wardrobe[i].type],
                        style |-> StyleValue[self_wardrobe[i].style],
                        color |-> self_wardrobe[i].color]]]

---------------------------------------------------------------------------
(* Inputs of the calls *)

\* weather arguments: the seven band tokens, other spellings of them, and
\* strings that are no band
WeatherInputs ==
    { <<"h","o","t">>, <<"w","a","r","m">>, <<"m","i","l","d">>, <<"c","o","o","l">>,
      <<"c","o","l","d">>, <<"r","a","i","n","y">>, <<"s","n","o","w","y">>,
      <<"H","O","T">>, <<"C","o","l","d">>, <<"w","i","n","d","y">>,
      <<"h","o","t"," ">>, <<>> }

\* vibe arguments: the five rule names, other spellings, and strings with no rule
VibeInputs ==
    { <<"c","a","s","u","a","l">>, <<"P","r","o","f","e","s","s","i","o","n","a","l">>,
      <<"b","u","s","i","n","e","s","s">>, <<"t","r","e","n","d","y">>,
      <<"s","p","o","r","t","y">>, <<"f","o","r","m","a","l">>, <<>> }

OccasionInputs == {"general", "work"}

\* the tokens descriptions are made of
Vocabulary ==
    { <<"h","o","o","d","i","e">>, <<"J","a","c","k","e","t">>, <<"d","r","e","s","s">>,
      <<"s","h","i","r","t">>, <<"s","h","o","r","t">>, <<"p","a","n","t","s">>,
      <<"l","a","p","t","o","p">>, <<"w","o","o","l">>, <<"f","o","r","m","a","l">>,
      <<"s","u","m","m","e","r">> }

\* " ".join(tokens)
RECURSIVE join(_)
join(tokens) ==
    IF tokens = <<>> THEN <<>>
    ELSE IF Len(tokens) = 1 THEN tokens[1]
    ELSE tokens[1] \o <<" ">> \o join(Tail(tokens))

\* description arguments: up to MaxWords tokens separated by single spaces
Descriptions ==
    { join(tokens) : tokens \in UNION { [1..n -> Vocabulary] : n \in 0..MaxWords } }

\* the texts made of the tokens at a set of positions, in the order of tokens
TextsOf(tokens) ==
    { LET at == SelectSeq([i \in 1..Len(tokens) |-> i], LAMBDA i : i \in chosen)
      IN  join([n \in 1..Len(at) |-> tokens[at[n]]]) :
          chosen \in SUBSET (1..Len(tokens)) }

\* description arguments in which each formal and each casual keyword of
\* _predict_formality is present or absent
FormalityTexts ==
    TextsOf(formal_keywords \o casual_keywords)

\* the tokens of the descriptions whose weather suitability is predicted:
\* garment words of the two defaults and band keywords
WeatherTokens ==
    << <<"h","o","o","d","i","e">>, <<"S","w","e","a","t","e","r">>, <<"t","-","s","h","i","r","t">>, <<"s","h","o","r","t","s">>, <<"s","a","n","d","a","l","s">>, <<"w","a","r","m">>, <<"l","i","g","h","t">>, <<"j","a","c","k","e","t">>, <<"r","a","i","n">> >>

WeatherTexts ==
    TextsOf(WeatherTokens)

\* the keyword texts a caller labels
KeywordTexts ==
    FormalityTexts \cup WeatherTexts

\* the cue words request texts are made of
Cues ==
    << <<"h","o","t">>, <<"C","o","l","d">>, <<"r","a","i","n">>, <<"c","o","o","l">>, <<"b","u","s","i","n","e","s","s">>, <<"o","f","f","i","c","e">>, <<"s","u","i","t">>, <<"w","o","r","k">>, <<"g","y","m">>, <<"c","a","s","u","a","l">>, <<"d","i","n","n","e","r">>, <<"p","a","r","t","y">>, <<"m","e","e","t","i","n","g">> >>

\* request arguments: two requests of the usage examples, and up to MaxCues
\* cue words separated by single spaces
RequestTexts ==
    { <<"I"," ","n","e","e","d"," ","s","o","m","e","t","h","i","n","g"," ","c","a","s","u","a","l"," ","f","o","r"," ","a"," ","h","o","t"," ","s","u","m","m","e","r"," ","d","a","y">>,
      <<"W","h","a","t"," ","s","h","o","u","l","d"," ","I"," ","w","e","a","r"," ","f","o","r"," ","a"," ","p","r","o","f","e","s","s","i","o","n","a","l"," ","b","u","s","i","n","e","s","s"," ","m","e","e","t","i","n","g","?">> } \cup
    { LET at == SelectSeq([i \in 1..Len(Cues) |-> i], LAMBDA i : i \in chosen)
      IN  join([n \in 1..Len(at) |-> Cues[at[n]]]) :
          chosen \in {c \in SUBSET (1..Len(Cues)) : Cardinality(c) <= MaxCues} }

\* items a caller adds
NewItems ==
    { ClothingItem("Black Evening Gown", "DRESS", "FORMAL",
                   <<"MILD", "COOL", "COLD">>, "black", <<"all">>, 9, 4),
      ClothingItem("Denim Skirt", "SKIRT", "CASUAL",
                   <<"HOT", "WARM", "MILD">>, "blue", <<"summer">>, 3, 3),
      ClothingItem("Vintage Cardigan", "SWEATER", "VINTAGE",
                   <<"COOL", "MILD", "SNOWY">>, "beige", <<"fall">>, 6, 6) }

\* jackets a caller adds: neither is formal or suitable for cold or rainy weather
NewJackets ==
    { ClothingItem("Denim Jacket", "JACKET", "CASUAL",
                   <<"MILD", "WARM">>, "blue", <<"spring", "fall">>, 4, 4),
      ClothingItem("Linen Blazer", "JACKET", "TRENDY",
                   <<"WARM", "HOT">>, "beige", <<"summer">>, 6, 2) }

\* the wardrobes an engine starts with: the sample wardrobe of __init__, or
\* an empty list installed by the host (wardrobe is a public attribute)
InitialWardrobes ==
    { _initialize_sample_wardrobe, <<>> }

\* the draws a call may consume, given the items it chooses among
RandomDraws(items) ==
    LET n(Test(_)) == IF SelectSeq(items, Test) = <<>> THEN 1 ELSE Len(SelectSeq(items, Test))
    IN  [dress_coin : BOOLEAN, outer_coin : BOOLEAN,
         dress : 1..n(is_dress), top : 1..n(is_top), bottom : 1..n(is_bottom),
         shoes : 1..n(is_shoes), outer : 1..n(is_outerwear)]

\* the draw that takes the first item everywhere
FirstDraw ==
    [dress_coin |-> TRUE, outer_coin |-> TRUE,
     dress |-> 1, top |-> 1, bottom |-> 1, shoes |-> 1, outer |-> 1]

\* label_clothing_from_text over the description arguments (computed once)
labels_of_descriptions ==
    [description \in Descriptions |-> label_clothing_from_text(description)]

\* ClothingAI.label_clothing: return self.labeler.label_clothing_from_text(description)
label_clothing(description) ==
    labels_of_descriptions[description]

\* an object the process at hand does not construct: clothing_ai.py and
\* ai_service.py do not import each other
NotConstructed == [object |-> "none"]

NoCall == [op |-> "none"]
NoLocals == [op |-> "none"]

---------------------------------------------------------------------------
(* RealAIService (src/backend/services/ai_service.py).  The values of a parsed *)
(* JSON reply are tagged with their Python type: [str |-> characters],      *)
(* [num |-> fraction], [bool |-> b], [list |-> elements], a record for a     *)
(* dict, NoneValue for None.                                                 *)

NoneValue == [none |-> TRUE]

\* bool(v) of a value
truthy(v) ==
    CASE "none" \in DOMAIN v -> FALSE
      [] "str" \in DOMAIN v -> v.str # <<>>
      [] "num" \in DOMAIN v -> v.num.num # 0
      [] "bool" \in DOMAIN v -> v.bool
      [] "list" \in DOMAIN v -> v.list # <<>>

\* data.get(key)
dict_get(data, key) ==
    IF key \in DOMAIN data THEN data[key] ELSE NoneValue

\* str.strip()
RECURSIVE strip(_)
strip(s) ==
    IF s = <<>> THEN s
    ELSE IF Head(s) \in whitespace THEN strip(Tail(s))
    ELSE IF s[Len(s)] \in whitespace THEN strip(SubSeq(s, 1, Len(s) - 1))
    ELSE s

\* the first entry of a table whose test holds, 0 when there is none
first_entry(table, Test(_)) ==
    IF \E i \in 1..Len(table) : Test(table[i])
    THEN CHOOSE i \in 1..Len(table) : Test(table[i]) /\ \A j \in 1..(i - 1) : ~Test(table[j])
    ELSE 0

\* cat_map of _normalize_analysis, in insertion order
cat_map ==
    << [key |-> <<"t","o","p">>, val |-> <<"t","o","p","s">>],
       [key |-> <<"t","-","s","h","i","r","t">>, val |-> <<"t","o","p","s">>],
       [key |-> <<"t","e","e">>, val |-> <<"t","o","p","s">>],
       [key |-> <<"s","h","i","r","t">>, val |-> <<"t","o","p","s">>],
       [key |-> <<"b","l","o","u","s","e">>, val |-> <<"t","o","p","s">>],
       [key |-> <<"h","o","o","d","i","e">>, val |-> <<"t","o","p","s">>],
       [key |-> <<"s","w","e","a","t","e","r">>, val |-> <<"t","o","p","s">>],
       [key |-> <<"j","a","c","k","e","t">>, val |-> <<"t","o","p","s">>],
       [key |-> <<"c","o","a","t">>, val |-> <<"t","o","p","s">>],
       [key |-> <<"p","a","n","t">>, val |-> <<"b","o","t","t","o","m","s">>],
       [key |-> <<"p","a","n","t","s">>, val |-> <<"b","o","t","t","o","m","s">>],
       [key |-> <<"j","e","a","n">>, val |-> <<"b","o","t","t","o","m","s">>],
       [key |-> <<"j","e","a","n","s">>, val |-> <<"b","o","t","t","o","m","s">>],
       [key |-> <<"t","r","o","u","s","e","r">>, val |-> <<"b","o","t","t","o","m","s">>],
       [key |-> <<"s","h","o","r","t">>, val |-> <<"b","o","t","t","o","m","s">>],
       [key |-> <<"s","h","o","r","t","s">>, val |-> <<"b","o","t","t","o","m","s">>],
       [key |-> <<"s","k","i","r","t">>, val |-> <<"b","o","t","t","o","m","s">>],
       [key |-> <<"d","r","e","s","s">>, val |-> <<"d","r","e","s","s","e","s">>],
       [key |-> <<"g","o","w","n">>, val |-> <<"d","r","e","s","s","e","s">>],
       [key |-> <<"s","h","o","e">>, val |-> <<"s","h","o","e","s">>],
       [key |-> <<"s","h","o","e","s">>, val |-> <<"s","h","o","e","s">>],
       [key |-> <<"s","n","e","a","k","e","r">>, val |-> <<"s","h","o","e","s">>],
       [key |-> <<"s","n","e","a","k","e","r","s">>, val |-> <<"s","h","o","e","s">>],
       [key |-> <<"b","o","o","t">>, val |-> <<"s","h","o","e","s">>],
       [key |-> <<"b","o","o","t","s">>, val |-> <<"s","h","o","e","s">>],
       [key |-> <<"s","a","n","d","a","l">>, val |-> <<"s","h","o","e","s">>],
       [key |-> <<"s","a","n","d","a","l","s">>, val |-> <<"s","h","o","e","s">>],
       [key |-> <<"a","c","c","e","s","s","o","r","y">>, val |-> <<"a","c","c","e","s","s","o","r","i","e","s">>],
       [key |-> <<"b","e","l","t">>, val |-> <<"a","c","c","e","s","s","o","r","i","e","s">>],
       [key |-> <<"c","a","p">>, val |-> <<"a","c","c","e","s","s","o","r","i","e","s">>],
       [key |-> <<"h","a","t">>, val |-> <<"a","c","c","e","s","s","o","r","i","e","s">>],
       [key |-> <<"s","c","a","r","f">>, val |-> <<"a","c","c","e","s","s","o","r","i","e","s">>],
       [key |-> <<"w","a","t","c","h">>, val |-> <<"a","c","c","e","s","s","o","r","i","e","s">>],
       [key |-> <<"g","l","o","v","e">>, val |-> <<"a","c","c","e","s","s","o","r","i","e","s">>] >>

\* variant: a shade keeps its own name
color_map_keeping_shades ==
    << [key |-> <<"n","a","v","y">>, val |-> <<"n","a","v","y">>],
       [key |-> <<"b","l","a","c","k">>, val |-> <<"b","l","a","c","k">>] >>

\* color_map of _normalize_analysis, in insertion order
color_map ==
    << [key |-> <<"n","a","v","y">>, val |-> <<"b","l","u","e">>],
       [key |-> <<"d","e","n","i","m">>, val |-> <<"b","l","u","e">>],
       [key |-> <<"s","k","y"," ","b","l","u","e">>, val |-> <<"b","l","u","e">>],
       [key |-> <<"t","e","a","l">>, val |-> <<"b","l","u","e">>],
       [key |-> <<"g","r","e","y">>, val |-> <<"g","r","a","y">>],
       [key |-> <<"c","h","a","r","c","o","a","l">>, val |-> <<"g","r","a","y">>],
       [key |-> <<"s","i","l","v","e","r">>, val |-> <<"g","r","a","y">>],
       [key |-> <<"b","e","i","g","e">>, val |-> <<"b","r","o","w","n">>],
       [key |-> <<"t","a","n">>, val |-> <<"b","r","o","w","n">>],
       [key |-> <<"k","h","a","k","i">>, val |-> <<"b","r","o","w","n">>],
       [key |-> <<"c","a","m","e","l">>, val |-> <<"b","r","o","w","n">>],
       [key |-> <<"m","a","r","o","o","n">>, val |-> <<"r","e","d">>],
       [key |-> <<"b","u","r","g","u","n","d","y">>, val |-> <<"r","e","d">>],
       [key |-> <<"v","i","o","l","e","t">>, val |-> <<"p","u","r","p","l","e">>],
       [key |-> <<"l","a","v","e","n","d","e","r">>, val |-> <<"p","u","r","p","l","e">>],
       [key |-> <<"g","o","l","d">>, val |-> <<"y","e","l","l","o","w">>],
       [key |-> <<"m","u","s","t","a","r","d">>, val |-> <<"y","e","l","l","o","w">>],
       [key |-> <<"m","a","g","e","n","t","a">>, val |-> <<"p","i","n","k">>],
       [key |-> <<"f","u","c","h","s","i","a">>, val |-> <<"p","i","n","k">>],
       [key |-> <<"o","r","a","n","g","e">>, val |-> <<"o","r","a","n","g","e">>],
       [key |-> <<"b","l","a","c","k">>, val |-> <<"b","l","a","c","k">>],
       [key |-> <<"w","h","i","t","e">>, val |-> <<"w","h","i","t","e">>],
       [key |-> <<"r","e","d">>, val |-> <<"r","e","d">>],
       [key |-> <<"b","l","u","e">>, val |-> <<"b","l","u","e">>],
       [key |-> <<"g","r","e","e","n">>, val |-> <<"g","r","e","e","n">>],
       [key |-> <<"y","e","l","l","o","w">>, val |-> <<"y","e","l","l","o","w">>],
       [key |-> <<"p","u","r","p","l","e">>, val |-> <<"p","u","r","p","l","e">>],
       [key |-> <<"p","i","n","k">>, val |-> <<"p","i","n","k">>],
       [key |-> <<"b","r","o","w","n">>, val |-> <<"b","r","o","w","n">>],
       [key |-> <<"g","r","a","y">>, val |-> <<"g","r","a","y">>] >>

\* filename_color_hints of _normalize_analysis, in insertion order
filename_color_hints ==
    << [color |-> <<"y","e","l","l","o","w">>, hints |->
           << <<"y","e","l","l","o","w">>, <<"g","o","l","d">>, <<"m","u","s","t","a","r","d">>, <<"l","e","m","o","n">>, <<"s","u","n">> >>],
       [color |-> <<"b","l","u","e">>, hints |->
           << <<"b","l","u","e">>, <<"n","a","v","y">>, <<"d","e","n","i","m">>, <<"r","o","y","a","l">>, <<"s","k","y">> >>],
       [color |-> <<"r","e","d">>, hints |->
           << <<"r","e","d">>, <<"c","r","i","m","s","o","n">>, <<"s","c","a","r","l","e","t">>, <<"m","a","r","o","o","n">>, <<"b","u","r","g","u","n","d","y">>, <<"c","h","e","r","r","y">> >>],
       [color |-> <<"g","r","e","e","n">>, hints |->
           << <<"g","r","e","e","n">>, <<"o","l","i","v","e">>, <<"f","o","r","e","s","t">>, <<"l","i","m","e">> >>],
       [color |-> <<"b","l","a","c","k">>, hints |->
           << <<"b","l","a","c","k">>, <<"c","h","a","r","c","o","a","l">> >>],
       [color |-> <<"w","h","i","t","e">>, hints |->
           << <<"w","h","i","t","e">>, <<"i","v","o","r","y">>, <<"c","r","e","a","m">> >>],
       [color |-> <<"p","u","r","p","l","e">>, hints |->
           << <<"p","u","r","p","l","e">>, <<"v","i","o","l","e","t">>, <<"l","a","v","e","n","d","e","r">> >>],
       [color |-> <<"o","r","a","n","g","e">>, hints |->
           << <<"o","r","a","n","g","e">>, <<"p","e","a","c","h">>, <<"c","o","r","a","l">> >>],
       [color |-> <<"p","i","n","k">>, hints |->
           << <<"p","i","n","k">>, <<"m","a","g","e","n","t","a">>, <<"f","u","c","h","s","i","a">>, <<"r","o","s","e">> >>],
       [color |-> <<"b","r","o","w","n">>, hints |->
           << <<"b","r","o","w","n">>, <<"b","e","i","g","e">>, <<"t","a","n">>, <<"k","h","a","k","i">>, <<"c","a","m","e","l">> >>],
       [color |-> <<"g","r","a","y">>, hints |->
           << <<"g","r","a","y">>, <<"g","r","e","y">>, <<"s","i","l","v","e","r">> >>] >>

\* float(data.get('confidence') or 0.8): a number as it is, True as 1.0, a
\* string of letters raises ValueError, a list raises TypeError
float_or_default(v) ==
    CASE ~truthy(v) -> [num |-> 4, den |-> 5]
      [] "num" \in DOMAIN v -> v.num
      [] "bool" \in DOMAIN v -> [num |-> 1, den |-> 1]
      [] "str" \in DOMAIN v /\ \E i \in 1..Len(v.str) :
                                   v.str[i] \in DOMAIN UpperToLower
                                   \/ \E u \in DOMAIN UpperToLower : UpperToLower[u] = v.str[i]
           -> [raised |-> "ValueError"]
      [] "list" \in DOMAIN v -> [raised |-> "TypeError"]

\* _normalize_analysis: the dict it returns, or the exception it raises
_normalize_analysis(data, filename) ==
    LET \* (data.get(key) or default).strip().lower()
        text_of(key, default) ==
            LET v == dict_get(data, key)
            IN  IF ~truthy(v) THEN [str |-> lower(strip(default))]
                ELSE IF "str" \in DOMAIN v THEN [str |-> lower(strip(v.str))]
                ELSE [raised |-> "AttributeError"]
        \* f"{value}" of a str or of None
        format(v) == CASE "str" \in DOMAIN v -> v.str
                       [] "none" \in DOMAIN v -> <<"N","o","n","e">>
        category == text_of("category", <<>>)
        color == text_of("color", <<>>)
        name == IF truthy(dict_get(data, "name")) THEN dict_get(data, "name")
                ELSE [str |-> <<"S","t","y","l","i","s","h"," ","I","t","e","m">>]
        style == text_of("style", <<"c","a","s","u","a","l">>)
        description == IF "description" \in DOMAIN data THEN data.description
                       ELSE [str |-> <<>>]
        text == lower(format(name) \o <<" ">> \o format(description))
        mapped == first_entry(cat_map, LAMBDA e : e.key = category.str)
        inferred == first_entry(cat_map, LAMBDA e : in_str(e.key, text))
        normalized_category ==
            IF category.str \in {<<"t","o","p","s">>, <<"b","o","t","t","o","m","s">>, <<"d","r","e","s","s","e","s">>, <<"s","h","o","e","s">>,
                                 <<"a","c","c","e","s","s","o","r","i","e","s">>}
            THEN category.str
            ELSE IF mapped # 0 THEN cat_map[mapped].val
            ELSE IF inferred # 0 THEN cat_map[inferred].val
            ELSE <<"a","c","c","e","s","s","o","r","i","e","s">>
        exact == first_entry(color_map, LAMBDA e : e.key = color.str)
        contained == first_entry(color_map, LAMBDA e : in_str(e.key, color.str))
        hinted == first_entry(filename_color_hints,
                              LAMBDA e : any_in(e.hints, lower(filename)))
        normalized_color ==
            IF exact # 0 THEN color_map[exact].val
            ELSE IF contained # 0 THEN color_map[contained].val
            ELSE IF hinted # 0 THEN filename_color_hints[hinted].color
            ELSE <<"g","r","a","y">>
        given == IF truthy(dict_get(data, "occasions")) THEN dict_get(data, "occasions")
                 ELSE IF truthy(dict_get(data, "occasion")) THEN dict_get(data, "occasion")
                 ELSE [list |-> <<[str |-> <<"c","a","s","u","a","l">>], [str |-> <<"e","v","e","r","y","d","a","y">>]>>]
        occasions == IF "str" \in DOMAIN given THEN [list |-> <<given>>] ELSE given
        confidence == float_or_default(dict_get(data, "confidence"))
    IN  IF "raised" \in DOMAIN category THEN category
        ELSE IF "raised" \in DOMAIN color THEN color
        ELSE IF "raised" \in DOMAIN style THEN style
        ELSE IF "raised" \in DOMAIN confidence THEN confidence
        ELSE [name |-> name,
              category |-> normalized_category,
              color |-> normalized_color,
              style |-> style.str,
              weather_suitability |->
                  IF truthy(dict_get(data, "weather_suitability"))
                  THEN dict_get(data, "weather_suitability")
                  ELSE [list |-> <<[str |-> <<"m","i","l","d">>], [str |-> <<"w","a","r","m">>]>>],
              occasions |-> occasions,
              confidence |-> confidence,
              description |-> IF truthy(dict_get(data, "description"))
                              THEN dict_get(data, "description")
                              ELSE [str |-> "AI analysis with normalization"]]

\* colors of _fallback_analysis, in insertion order
colors ==
    << [color |-> <<"y","e","l","l","o","w">>, hints |->
           << <<"y","e","l","l","o","w">>, <<"g","o","l","d","e","n">>, <<"m","u","s","t","a","r","d">>, <<"l","e","m","o","n">> >>],
       [color |-> <<"b","l","u","e">>, hints |->
           << <<"b","l","u","e">>, <<"n","a","v","y">>, <<"r","o","y","a","l">>, <<"s","k","y">>, <<"d","e","n","i","m">> >>],
       [color |-> <<"r","e","d">>, hints |->
           << <<"r","e","d">>, <<"c","r","i","m","s","o","n">>, <<"s","c","a","r","l","e","t">>, <<"c","h","e","r","r","y">>, <<"m","a","r","o","o","n">>, <<"b","u","r","g","u","n","d","y">> >>],
       [color |-> <<"g","r","e","e","n">>, hints |->
           << <<"g","r","e","e","n">>, <<"f","o","r","e","s","t">>, <<"l","i","m","e">>, <<"o","l","i","v","e">> >>],
       [color |-> <<"b","l","a","c","k">>, hints |->
           << <<"b","l","a","c","k">>, <<"c","h","a","r","c","o","a","l">>, <<"d","a","r","k">> >>],
       [color |-> <<"w","h","i","t","e">>, hints |->
           << <<"w","h","i","t","e">>, <<"c","r","e","a","m">>, <<"i","v","o","r","y">> >>],
       [color |-> <<"p","u","r","p","l","e">>, hints |->
           << <<"p","u","r","p","l","e">>, <<"v","i","o","l","e","t">>, <<"l","a","v","e","n","d","e","r">> >>],
       [color |-> <<"o","r","a","n","g","e">>, hints |->
           << <<"o","r","a","n","g","e">>, <<"p","e","a","c","h">>, <<"c","o","r","a","l">> >>],
       [color |-> <<"p","i","n","k">>, hints |->
           << <<"p","i","n","k">>, <<"r","o","s","e">>, <<"m","a","g","e","n","t","a">>, <<"f","u","c","h","s","i","a">> >>],
       [color |-> <<"b","r","o","w","n">>, hints |->
           << <<"b","r","o","w","n">>, <<"t","a","n">>, <<"b","e","i","g","e">>, <<"k","h","a","k","i">>, <<"c","a","m","e","l">> >>],
       [color |-> <<"g","r","a","y">>, hints |->
           << <<"g","r","a","y">>, <<"g","r","e","y">>, <<"s","i","l","v","e","r">> >>] >>

\* the word lists of the category tests of _fallback_analysis, in test order
category_words ==
    << [category |-> <<"t","o","p","s">>, words |->
           << <<"s","h","i","r","t">>, <<"t","e","e">>, <<"t","-","s","h","i","r","t">>, <<"t","o","p">>, <<"b","l","o","u","s","e">>, <<"h","o","o","d","i","e">>, <<"s","w","e","a","t","e","r">>, <<"t","a","n","k">>, <<"j","a","c","k","e","t">>, <<"c","o","a","t">> >>],
       [category |-> <<"b","o","t","t","o","m","s">>, words |->
           << <<"j","e","a","n">>, <<"p","a","n","t">>, <<"t","r","o","u","s","e","r">>, <<"s","h","o","r","t">>, <<"s","k","i","r","t">> >>],
       [category |-> <<"d","r","e","s","s","e","s">>, words |->
           << <<"d","r","e","s","s">>, <<"g","o","w","n">>, <<"f","r","o","c","k">> >>],
       [category |-> <<"s","h","o","e","s">>, words |->
           << <<"s","h","o","e">>, <<"b","o","o","t">>, <<"s","n","e","a","k","e","r">>, <<"s","a","n","d","a","l">>, <<"h","e","e","l">> >>] >>

\* _fallback_analysis: the dict made from the filename alone
_fallback_analysis(filename) ==
    LET filename_lower == lower(filename)
        hit == first_entry(colors, LAMBDA e : any_in(e.hints, filename_lower))
        detected_color == IF hit # 0 THEN colors[hit].color ELSE <<"g","r","a","y">>
        test == first_entry(category_words, LAMBDA e : any_in(e.words, filename_lower))
        category == IF test # 0 THEN category_words[test].category ELSE <<"a","c","c","e","s","s","o","r","i","e","s">>
        letters == DOMAIN UpperToLower \cup {UpperToLower[u] : u \in DOMAIN UpperToLower}
        digits == {"0", "1", "2", "3", "4", "5", "6", "7", "8", "9"}
        upper(ch) == IF ch \in DOMAIN UpperToLower THEN ch
                     ELSE CHOOSE u \in DOMAIN UpperToLower : UpperToLower[u] = ch
        \* filename.replace('_',' ').replace('-',' ')
        replaced == [i \in 1..Len(filename) |->
                        IF filename[i] \in {"_", "-"} THEN " " ELSE filename[i]]
        \* ''.join(c for c in name if c.isalnum() or c.isspace()).strip()
        kept == strip(SelectSeq(replaced,
                                LAMBDA ch : ch \in letters \cup digits \cup whitespace))
        \* ' '.join(name.split())
        joined == join(split(IF kept = <<>> THEN <<"S","t","y","l","i","s","h"," ","I","t","e","m">> ELSE kept))
        \* str.title(): a letter after a letter is lower-cased, any other letter
        \* is upper-cased
        title == [i \in 1..Len(joined) |->
                     IF joined[i] \notin letters THEN joined[i]
                     ELSE IF i > 1 /\ joined[i - 1] \in letters
                     THEN lower(<<joined[i]>>)[1]
                     ELSE upper(joined[i])]
    IN  [name |-> title,
         category |-> category,
         color |-> detected_color,
         style |-> <<"c","a","s","u","a","l">>,
         weather_suitability |->
             IF category \in {<<"t","o","p","s">>, <<"d","r","e","s","s","e","s">>}
             THEN <<<<"m","i","l","d">>, <<"w","a","r","m">>>> ELSE <<<<"m","i","l","d">>, <<"c","o","o","l">>>>,
         occasions |-> <<<<"c","a","s","u","a","l">>, <<"e","v","e","r","y","d","a","y">>>>,
         confidence |-> [num |-> 4, den |-> 5],
         description |-> "Filename-based fallback analysis"]

\* the filename arguments of analyze_clothing_image
Filenames ==
    { <<>>,
      <<"b","l","u","e","_","j","e","a","n","s",".","j","p","g">>,
      <<"R","e","d","-","D","r","e","s","s"," ","2",".","P","N","G">>,
      <<"I","M","G","_","0","0","1",".","j","p","g">>,
      <<"d","a","r","k"," ","s","u","n","h","a","t">>,
      <<"_","_","_">> }

\* its image_data arguments: no image, plain base64, a data URL, and a data
\* URL with a second comma
Images ==
    { <<>>,
      <<"A","A","A","A">>,
      <<"d","a","t","a",":","i","m","a","g","e","/","p","n","g",";","b","a","s","e","6","4",",","A","A","A","A">>,
      <<"d","a","t","a",":","i","m","a","g","e","/","p","n","g",";","b","a","s","e","6","4",",","A","A",",","A","A">> }


\* the texts a Gemini reply can carry
ReplyTexts ==
    { <<"{","\"","o","u","t","f","i","t","\"",":","[","{","\"","n","a","m","e","\"",":","\"","T","e","e","\"",",","\"","c","a","t","e","g","o","r","y","\"",":","\"","t","o","p","s","\"",",","\"","r","e","a","s","o","n","\"",":","\"","l","i","g","h","t","\"","}","]",",","\"","c","o","n","f","i","d","e","n","c","e","\"",":","0",".","9","}">>,
      <<"{","\"","n","a","m","e","\"",":","\"","B","l","a","c","k"," ","J","e","a","n","s","\"",",","\"","c","a","t","e","g","o","r","y","\"",":","\"","b","o","t","t","o","m","s","\"",",","\"","c","o","l","o","r","\"",":","\"","b","l","a","c","k","\"",",","\"","s","t","y","l","e","\"",":","\"","C","a","s","u","a","l","\"",",","\"","w","e","a","t","h","e","r","_","s","u","i","t","a","b","i","l","i","t","y","\"",":","[","\"","m","i","l","d","\"",",","\"","c","o","o","l","\"","]",",","\"","o","c","c","a","s","i","o","n","s","\"",":","[","\"","c","a","s","u","a","l","\"","]",",","\"","c","o","n","f","i","d","e","n","c","e","\"",":","0",".","9",",","\"","d","e","s","c","r","i","p","t","i","o","n","\"",":","\"","D","e","n","i","m"," ","p","a","n","t","s","\"","}">>,
      <<"S","u","r","e",":"," ","{","\"","c","a","t","e","g","o","r","y","\"",":","\"","S","n","e","a","k","e","r"," ","\"",",","\"","c","o","l","o","r","\"",":","\"","N","a","v","y"," ","B","l","u","e","\"","}"," ","o","k">>,
      <<"{","\"","n","a","m","e","\"",":","\"","W","o","o","l"," ","s","c","a","r","f","\"",",","\"","c","a","t","e","g","o","r","y","\"",":","\"","o","u","t","e","r","w","e","a","r","\"",",","\"","c","o","l","o","r","\"",":","\"","t","u","r","q","u","o","i","s","e","\"",",","\"","o","c","c","a","s","i","o","n","\"",":","\"","p","a","r","t","y","\"","}">>,
      <<"{","\"","c","a","t","e","g","o","r","y","\"",":","5","}">>,
      <<"{","\"","c","o","n","f","i","d","e","n","c","e","\"",":","\"","h","i","g","h","\"","}">>,
      <<"{","}">>,
      <<>>,
      <<"n","o"," ","j","s","o","n">>,
      <<"}","{">>,
      <<"{","n","a","m","e",":"," ","j","e","a","n","s","}">>,
      <<"{","\"","n","a","m","e","\"",":","\"","J","e","a","n","s","\"","}"," ","o","r"," ","{","\"","n","a","m","e","\"",":","\"","D","e","n","i","m","\"","}">> }

\* what one HTTP exchange with the Gemini API can be: the request raises
\* (network error, HTTP error status, a body that is no JSON), the response has
\* no candidate text, or it carries a text
GeminiExchanges ==
    { [outcome |-> "raises"], [outcome |-> "no candidates"] }
    \cup { [outcome |-> "text", text |-> text] : text \in ReplyTexts }

\* _query_gemini: the text of the first part of the first candidate, None when
\* there is none or when anything raised
_query_gemini(exchange) ==
    IF exchange.outcome = "text" THEN [str |-> exchange.text] ELSE NoneValue

\* the JSON documents among the replies, with json.loads of each
json_documents ==
    << [text |->
            <<"{","\"","n","a","m","e","\"",":","\"","B","l","a","c","k"," ","J","e","a","n","s","\"",",","\"","c","a","t","e","g","o","r","y","\"",":","\"","b","o","t","t","o","m","s","\"",",","\"","c","o","l","o","r","\"",":","\"","b","l","a","c","k","\"",",","\"","s","t","y","l","e","\"",":","\"","C","a","s","u","a","l","\"",",","\"","w","e","a","t","h","e","r","_","s","u","i","t","a","b","i","l","i","t","y","\"",":","[","\"","m","i","l","d","\"",",","\"","c","o","o","l","\"","]",",","\"","o","c","c","a","s","i","o","n","s","\"",":","[","\"","c","a","s","u","a","l","\"","]",",","\"","c","o","n","f","i","d","e","n","c","e","\"",":","0",".","9",",","\"","d","e","s","c","r","i","p","t","i","o","n","\"",":","\"","D","e","n","i","m"," ","p","a","n","t","s","\"","}">>,
        value |->
            [name |-> [str |-> <<"B","l","a","c","k"," ","J","e","a","n","s">>], category |-> [str |-> <<"b","o","t","t","o","m","s">>], color |-> [str |-> <<"b","l","a","c","k">>], style |-> [str |-> <<"C","a","s","u","a","l">>], weather_suitability |-> [list |-> <<[str |-> <<"m","i","l","d">>], [str |-> <<"c","o","o","l">>]>>], occasions |-> [list |-> <<[str |-> <<"c","a","s","u","a","l">>]>>], confidence |-> [num |-> [num |-> 9, den |-> 10]], description |-> [str |-> <<"D","e","n","i","m"," ","p","a","n","t","s">>]]],
       [text |->
            <<"{","\"","c","a","t","e","g","o","r","y","\"",":","\"","S","n","e","a","k","e","r"," ","\"",",","\"","c","o","l","o","r","\"",":","\"","N","a","v","y"," ","B","l","u","e","\"","}">>,
        value |->
            [category |-> [str |-> <<"S","n","e","a","k","e","r"," ">>], color |-> [str |-> <<"N","a","v","y"," ","B","l","u","e">>]]],
       [text |->
            <<"{","\"","n","a","m","e","\"",":","\"","W","o","o","l"," ","s","c","a","r","f","\"",",","\"","c","a","t","e","g","o","r","y","\"",":","\"","o","u","t","e","r","w","e","a","r","\"",",","\"","c","o","l","o","r","\"",":","\"","t","u","r","q","u","o","i","s","e","\"",",","\"","o","c","c","a","s","i","o","n","\"",":","\"","p","a","r","t","y","\"","}">>,
        value |->
            [name |-> [str |-> <<"W","o","o","l"," ","s","c","a","r","f">>], category |-> [str |-> <<"o","u","t","e","r","w","e","a","r">>], color |-> [str |-> <<"t","u","r","q","u","o","i","s","e">>], occasion |-> [str |-> <<"p","a","r","t","y">>]]],
       [text |->
            <<"{","\"","c","a","t","e","g","o","r","y","\"",":","5","}">>,
        value |->
            [category |-> [num |-> [num |-> 5, den |-> 1]]]],
       [text |->
            <<"{","\"","c","o","n","f","i","d","e","n","c","e","\"",":","\"","h","i","g","h","\"","}">>,
        value |->
            [confidence |-> [str |-> <<"h","i","g","h">>]]],
       [text |->
            <<"{","}">>,
        value |->
            EmptyDict],
       [text |->
            <<"{","\"","o","u","t","f","i","t","\"",":","[","{","\"","n","a","m","e","\"",":","\"","T","e","e","\"",",","\"","c","a","t","e","g","o","r","y","\"",":","\"","t","o","p","s","\"",",","\"","r","e","a","s","o","n","\"",":","\"","l","i","g","h","t","\"","}","]",",","\"","c","o","n","f","i","d","e","n","c","e","\"",":","0",".","9","}">>,
        value |->
            [outfit |-> [list |-> <<[name |-> [str |-> <<"T","e","e">>], category |-> [str |-> <<"t","o","p","s">>], reason |-> [str |-> <<"l","i","g","h","t">>]]>>], confidence |-> [num |-> [num |-> 9, den |-> 10]]]] >>

JSONDecodeError == [raised |-> "JSONDecodeError"]

\* json.loads(json_str)
json_loads(json_str) ==
    LET hit == first_entry(json_documents, LAMBDA e : e.text = json_str)
    IN  IF hit # 0 THEN json_documents[hit].value ELSE JSONDecodeError

\* result[json_start:json_end] with json_start = result.find('{') and
\* json_end = result.rfind('}') + 1; None when the test on them fails
json_slice(gemini_result) ==
    LET opens == {i \in 1..Len(gemini_result) : gemini_result[i] = "{"}
        closes == {i \in 1..Len(gemini_result) : gemini_result[i] = "}"}
        json_start == IF opens = {} THEN -1
                      ELSE (CHOOSE i \in opens : \A j \in opens : i <= j) - 1
        json_end == IF closes = {} THEN 0
                    ELSE CHOOSE i \in closes : \A j \in closes : i >= j
    IN  IF json_start # -1 /\ json_end > json_start
        THEN [str |-> SubSeq(gemini_result, json_start + 1, json_end)]
        ELSE NoneValue

\* header, b64 = image_data.split(',') raises ValueError unless the data URL
\* has exactly one comma
unpack_raises(image_data) ==
    /\ image_data # <<>>
    /\ Len(image_data) >= 5 /\ SubSeq(image_data, 1, 5) = <<"d","a","t","a",":">>
    /\ in_str(<<";","b","a","s","e","6","4",",">>, image_data)
    /\ Cardinality({i \in 1..Len(image_data) : image_data[i] = ","}) # 1

\* variant: what the reply parsing raises reaches the caller as an error dict
analyze_clothing_image_strict(self, image_data, filename, exchange) ==
    LET gemini_result == _query_gemini(exchange)
        json_str == json_slice(gemini_result.str)
        parsed_result == json_loads(json_str.str)
        normalized == _normalize_analysis(parsed_result, filename)
    IN  IF self.gemini_api_key = None
        THEN [ret |-> _fallback_analysis(filename), locals |-> [step |-> "no key"]]
        ELSE IF unpack_raises(image_data)
        THEN [ret |-> _fallback_analysis(filename), locals |-> [step |-> "except"]]
        ELSE IF ~truthy(gemini_result) \/ "none" \in DOMAIN json_str
        THEN [ret |-> _fallback_analysis(filename),
              locals |-> [step |-> "no json", result |-> gemini_result]]
        ELSE IF parsed_result = JSONDecodeError
        THEN [ret |-> [error |-> "JSONDecodeError"],
              locals |-> [step |-> "JSONDecodeError", result |-> gemini_result]]
        ELSE IF "raised" \in DOMAIN normalized
        THEN [ret |-> [error |-> normalized.raised],
              locals |-> [step |-> "except", result |-> gemini_result,
                          parsed_result |-> parsed_result]]
        ELSE [ret |-> normalized,
              locals |-> [step |-> "normalized", result |-> gemini_result,
                          parsed_result |-> parsed_result]]

\* analyze_clothing_image: the dict it returns and the step that returned it
analyze_clothing_image(self, image_data, filename, exchange) ==
    LET gemini_result == _query_gemini(exchange)
        json_str == json_slice(gemini_result.str)
        parsed_result == json_loads(json_str.str)
        normalized == _normalize_analysis(parsed_result, filename)
    IN  IF self.gemini_api_key = None
        THEN [ret |-> _fallback_analysis(filename), locals |-> [step |-> "no key"]]
        ELSE IF unpack_raises(image_data)
        THEN [ret |-> _fallback_analysis(filename), locals |-> [step |-> "except"]]
        ELSE IF ~truthy(gemini_result) \/ "none" \in DOMAIN json_str
        THEN [ret |-> _fallback_analysis(filename),
              locals |-> [step |-> "no json", result |-> gemini_result]]
        ELSE IF parsed_result = JSONDecodeError
        THEN [ret |-> _fallback_analysis(filename),
              locals |-> [step |-> "JSONDecodeError", result |-> gemini_result]]
        ELSE IF "raised" \in DOMAIN normalized
        THEN [ret |-> _fallback_analysis(filename),
              locals |-> [step |-> "except", result |-> gemini_result,
                          parsed_result |-> parsed_result]]
        ELSE [ret |-> normalized,
              locals |-> [step |-> "normalized", result |-> gemini_result,
                          parsed_result |-> parsed_result]]

\* _fallback_outfit_recommendation: the first item of each of tops, bottoms
\* and shoes among the items that suit the temperature (among all items when
\* none suits it)
_fallback_outfit_recommendation(wardrobe_items, weather, occasion) ==
    LET temperature == IF "temperature" \in DOMAIN weather THEN weather.temperature ELSE 20
        weather_category == IF "weather_category" \in DOMAIN weather
                            THEN weather.weather_category ELSE "current"
        category_in(item, categories) ==
            "category" \in DOMAIN item /\ item.category \in categories
        suits(item) ==
            \/ temperature >= 20 /\ category_in(item, {"tops", "dresses", "shorts"})
            \/ temperature < 20 /\ category_in(item, {"tops", "bottoms", "outerwear"})
            \/ category_in(item, {"shoes"})
        filtered == SelectSeq(wardrobe_items, suits)
        suitable_items == IF filtered = <<>> THEN wardrobe_items ELSE filtered
        categories_needed == <<"tops", "bottoms", "shoes">>
        items_in_category(category) ==
            SelectSeq(suitable_items, LAMBDA item : category_in(item, {category}))
        found == SelectSeq(categories_needed,
                           LAMBDA category : items_in_category(category) # <<>>)
    IN  [outfit |->
             [n \in 1..Len(found) |->
                 LET first == items_in_category(found[n])[1]
                 IN  [name |-> IF "name" \in DOMAIN first THEN first.name ELSE "Item",
                      category |-> found[n],
                      reason |-> <<"Selected for ", occasion, " occasion and ",
                                   weather_category, " weather">>]],
         overall_reasoning |-> <<"Rule-based selection appropriate for ", occasion, " in ",
                                 weather_category, " weather">>,
         style_score |-> 7,
         weather_score |-> 8,
         confidence |-> [num |-> 4, den |-> 5]]

\* generate_outfit_recommendation: the dict it returns and the step that
\* returned it
generate_outfit_recommendation(self, wardrobe_items, weather, occasion, exchange) ==
    LET gemini_result == _query_gemini(exchange)
        json_str == json_slice(gemini_result.str)
        parsed_result == json_loads(json_str.str)
    IN  IF wardrobe_items = <<>>
        THEN [ret |-> [error |-> "No wardrobe items available"],
              locals |-> [step |-> "not wardrobe"]]
        ELSE IF /\ self.gemini_api_key # None
                /\ truthy(gemini_result)
                /\ "str" \in DOMAIN json_str
                /\ parsed_result # JSONDecodeError
        THEN [ret |-> parsed_result,
              locals |-> [step |-> "parsed", result |-> gemini_result]]
        ELSE [ret |-> _fallback_outfit_recommendation(wardrobe_items, weather, occasion),
              locals |-> [step |-> "fallback"]]

\* round(x) of a float to an int: to the nearest integer, a half to the even one
round(x) ==
    LET q == x.num \div x.den
        r == x.num % x.den
    IN  IF 2 * r < x.den THEN q
        ELSE IF 2 * r > x.den THEN q + 1
        ELSE IF q % 2 = 0 THEN q ELSE q + 1

_mock_weather_data ==
    [temperature |-> 22,
     condition |-> <<"c","l","e","a","r">>,
     description |-> <<"C","l","e","a","r"," ","S","k","y">>,
     humidity |-> 60,
     wind_speed |-> [num |-> 5, den |-> 1],
     weather_category |-> "mild",
     city |-> "Demo Location",
     recommendation |-> "Perfect weather for light layers"]

_categorize_weather(temperature, condition) ==
    IF temperature.num >= 25 * temperature.den THEN "hot"
    ELSE IF temperature.num >= 20 * temperature.den THEN "warm"
    ELSE IF temperature.num >= 15 * temperature.den THEN "mild"
    ELSE IF temperature.num >= 5 * temperature.den THEN "cool"
    ELSE "cold"

_get_weather_recommendation(temperature, condition) ==
    IF temperature.num >= 25 * temperature.den THEN "Light, breathable fabrics recommended"
    ELSE IF temperature.num >= 20 * temperature.den THEN "Comfortable light layers work well"
    ELSE IF temperature.num >= 15 * temperature.den THEN "Light jacket or sweater recommended"
    ELSE IF temperature.num >= 5 * temperature.den THEN "Warm layers and outerwear needed"
    ELSE "Heavy winter clothing recommended"

\* get_weather_data: the dict it returns and the step that returned it; the
\* exchange is the outcome of requests.get, raise_for_status and response.json
get_weather_data(self, city, exchange) ==
    LET data == exchange.data
        complete ==
            /\ {"main", "weather", "wind"} \subseteq DOMAIN data
            /\ {"temp", "humidity"} \subseteq DOMAIN data.main
            /\ data.weather # <<>>
            /\ {"main", "description"} \subseteq DOMAIN data.weather[1]
            /\ "speed" \in DOMAIN data.wind
        temperature == data.main.temp
        condition == lower(data.weather[1].main)
        description == data.weather[1].description
        letters == DOMAIN UpperToLower \cup {UpperToLower[u] : u \in DOMAIN UpperToLower}
        upper(ch) == IF ch \in DOMAIN UpperToLower THEN ch
                     ELSE CHOOSE u \in DOMAIN UpperToLower : UpperToLower[u] = ch
        \* str.title(): a letter after a letter is lower-cased, any other letter
        \* is upper-cased
        title == [i \in 1..Len(description) |->
                     IF description[i] \notin letters THEN description[i]
                     ELSE IF i > 1 /\ description[i - 1] \in letters
                     THEN lower(<<description[i]>>)[1]
                     ELSE upper(description[i])]
    IN  IF self.openweather_api_key = None
        THEN [ret |-> _mock_weather_data, locals |-> [step |-> "no key"]]
        ELSE IF exchange.outcome = "raises"
        THEN [ret |-> _mock_weather_data, locals |-> [step |-> "except"]]
        ELSE IF ~complete
        THEN [ret |-> _mock_weather_data, locals |-> [step |-> "except", data |-> data]]
        ELSE [ret |-> [temperature |-> round(temperature),
                       condition |-> condition,
                       description |-> title,
                       humidity |-> data.main.humidity,
                       wind_speed |-> data.wind.speed,
                       weather_category |-> _categorize_weather(temperature, condition),
                       city |-> city,
                       recommendation |-> _get_weather_recommendation(temperature, condition)],
              locals |-> [step |-> "live", data |-> data, temperature |-> temperature]]

\* the temperatures of the replies of the weather API, in tenths of a degree
Temperatures ==
    { [num |-> tenths, den |-> 10] :
          tenths \in {-32, 49, 50, 145, 150, 196, 200, 220, 244, 245, 246, 250, 255, 303} }

\* the outcomes of the HTTP exchange of get_weather_data: a failure (of the
\* request, of the status, of the JSON decoding) or the decoded body
WeatherExchanges ==
    { [outcome |-> "raises"],
      [outcome |-> "json", data |-> [cod |-> 200]] }
    \cup { [outcome |-> "json",
            data |-> [main |-> [temp |-> temp, humidity |-> 60],
                      weather |-> << [main |-> <<"C","l","e","a","r">>, description |-> <<"c","l","e","a","r"," ","s","k","y">>] >>,
                      wind |-> [speed |-> [num |-> 41, den |-> 10]]]] : temp \in Temperatures }
    \cup { [outcome |-> "json",
            data |-> [main |-> [temp |-> [num |-> 12, den |-> 1], humidity |-> 93],
                      weather |-> << [main |-> <<"R","a","i","n">>, description |-> <<"l","i","g","h","t"," ","r","a","i","n">>],
                                     [main |-> <<"M","i","s","t">>, description |-> <<"m","i","s","t">>] >>,
                      wind |-> [speed |-> [num |-> 7, den |-> 1]]]] }

\* the city arguments
Cities == {"London", "Pune"}

\* the items of the wardrobe lists a client sends
WardrobeItems ==
    << [name |-> "White Tee", category |-> "tops", color |-> "white"],
       [name |-> "Blue Jeans", category |-> "bottoms", color |-> "blue"],
       [name |-> "Sneakers", category |-> "shoes"],
       [category |-> "dresses"],
       [name |-> "Old Belt"] >>

\* the wardrobe arguments: the items at a set of positions, in order
WardrobeLists ==
    { SelectSeq(WardrobeItems, LAMBDA item : item \in chosen) :
          chosen \in SUBSET {WardrobeItems[i] : i \in 1..Len(WardrobeItems)} }

\* the weather arguments: the dict of a weather call, or one without keys
WeatherDicts ==
    { EmptyDict,
      [temperature |-> 25, weather_category |-> "hot"],
      [temperature |-> 12, weather_category |-> "cool"] }

---------------------------------------------------------------------------
(* The state machine: a host calls the methods of ClothingAI one at a time *)

Init ==
    /\ wardrobe \in InitialWardrobes
    /\ initial = wardrobe
    /\ added = <<>>
    /\ result = NoCall
    /\ locals = NoLocals
    /\ hf_integration \in HuggingFaceIntegrations
    /\ ai_service = NotConstructed

\* ClothingAI.add_clothing_item(item)
AddClothingItem ==
    /\ result = NoCall
    /\ Len(added) < MaxAdds
    /\ \E item \in NewItems :
           /\ wardrobe' = add_clothing_item(wardrobe, item)
           /\ added' = Append(added, item)
           /\ result' = [op |-> "add_clothing_item", raised |-> "none"]
    /\ UNCHANGED <<hf_integration, ai_service, initial, locals>>

\* ClothingAI.add_clothing_item(item) with a jacket
AddJacket ==
    /\ result = NoCall
    /\ Len(added) < MaxAdds
    /\ \E item \in NewJackets :
           /\ wardrobe' = add_clothing_item(wardrobe, item)
           /\ added' = Append(added, item)
           /\ result' = [op |-> "add_clothing_item", raised |-> "none"]
    /\ UNCHANGED <<hf_integration, ai_service, initial, locals>>

\* ClothingAI.suggest_outfit_from_params(weather, vibe, occasion)
SuggestOutfit ==
    /\ result = NoCall
    /\ \E weather \in WeatherInputs, vibe \in VibeInputs, occasion \in OccasionInputs :
           LET candidates ==
                   _filter_items_by_vibe(
                       _filter_items_by_weather(wardrobe, weather_enum_of(weather)),
                       lower(vibe))
           IN  \E rnd \in RandomDraws(candidates) :
                   LET call == suggest_outfit(wardrobe, weather, vibe, occasion, rnd)
                       args == [weather |-> weather, vibe |-> vibe, occasion |-> occasion]
                   IN  /\ result' = IF call.raised = "none"
                                    THEN [op |-> "suggest_outfit", args |-> args,
                                          raised |-> "none", ret |-> call.ret]
                                    ELSE [op |-> "suggest_outfit", args |-> args,
                                          raised |-> call.raised]
                       /\ locals' = call.locals
    /\ UNCHANGED <<hf_integration, ai_service, wardrobe, initial, added>>

\* ClothingAI.suggest_outfit_from_params(weather, vibe, occasion), called once
\* for each occasion with the same weather and vibe and the same outcomes of
\* the random choices
SuggestOutfitForOccasions ==
    /\ result = NoCall
    /\ \E weather \in WeatherInputs, vibe \in VibeInputs :
           LET candidates ==
                   _filter_items_by_vibe(
                       _filter_items_by_weather(wardrobe, weather_enum_of(weather)),
                       lower(vibe))
           IN  \E rnd \in RandomDraws(candidates) :
                   /\ result' = [op |-> "suggest_outfit for occasions",
                                 args |-> [weather |-> weather, vibe |-> vibe],
                                 raised |-> "none",
                                 calls |-> [occasion \in OccasionInputs |->
                                               suggest_outfit(wardrobe, weather, vibe,
                                                              occasion, rnd)]]
                   /\ locals' = [candidates |-> candidates]
    /\ UNCHANGED <<hf_integration, ai_service, wardrobe, initial, added>>

\* ClothingAI.label_clothing(description)
LabelClothing ==
    /\ result = NoCall
    /\ \E description \in Descriptions :
           LET ret == label_clothing(description)
           IN  result' = IF ret.confidence = ZeroDivisionError
                         THEN [op |-> "label_clothing", raised |-> "ZeroDivisionError",
                               description |-> description]
                         ELSE [op |-> "label_clothing", raised |-> "none",
                               description |-> description, ret |-> ret]
    /\ UNCHANGED <<hf_integration, ai_service, wardrobe, initial, added, locals>>

\* ClothingAI.label_clothing(description) on a description made of the keywords
\* the predictions look for
LabelKeywordText ==
    /\ result = NoCall
    /\ \E description \in KeywordTexts :
           LET ret == label_clothing_from_text(description)
           IN  result' = IF ret.confidence = ZeroDivisionError
                         THEN [op |-> "label_clothing", raised |-> "ZeroDivisionError",
                               description |-> description]
                         ELSE [op |-> "label_clothing", raised |-> "none",
                               description |-> description, ret |-> ret]
    /\ UNCHANGED <<hf_integration, ai_service, wardrobe, initial, added, locals>>

\* ClothingAI.suggest_outfit_from_text(request_text)
SuggestOutfitFromText ==
    /\ result = NoCall
    /\ \E request_text \in RequestTexts,
          classifier_outcome \in ClassifierOutcomes(hf_integration) :
           LET candidates ==
                   suggest_outfit_from_text(wardrobe, hf_integration, request_text,
                                            classifier_outcome, FirstDraw).locals.suitable_items
           IN  \E rnd \in RandomDraws(candidates) :
                   LET returns(call) ==
                           /\ result' = IF call.raised = "none"
                                        THEN [op |-> "suggest_outfit_from_text",
                                              request_text |-> request_text,
                                              raised |-> "none", ret |-> call.ret]
                                        ELSE [op |-> "suggest_outfit_from_text",
                                              request_text |-> request_text,
                                              raised |-> call.raised]
                           /\ locals' = call.locals
                   IN  returns(suggest_outfit_from_text(wardrobe, hf_integration,
                                                        request_text, classifier_outcome, rnd))
    /\ UNCHANGED <<hf_integration, ai_service, wardrobe, initial, added>>

\* ClothingAI.get_wardrobe_summary()
GetWardrobeSummary ==
    /\ result = NoCall
    /\ result' = [op |-> "get_wardrobe_summary", raised |-> "none",
                  ret |-> get_wardrobe_summary(wardrobe)]
    /\ UNCHANGED <<hf_integration, ai_service, wardrobe, initial, added, locals>>

\* RealAIService.analyze_clothing_image(image_data, filename)
AnalyzeClothingImage ==
    /\ result = NoCall
    /\ ai_service # NotConstructed
    /\ \E image_data \in Images, filename \in Filenames, exchange \in GeminiExchanges :
           LET call == analyze_clothing_image(ai_service, image_data, filename, exchange)
           IN  /\ result' = [op |-> "analyze_clothing_image",
                             args |-> [image_data |-> image_data, filename |-> filename],
                             exchange |-> exchange,
                             raised |-> "none", ret |-> call.ret]
               /\ locals' = call.locals
    /\ UNCHANGED <<hf_integration, ai_service, wardrobe, initial, added>>

\* RealAIService.generate_outfit_recommendation(wardrobe, weather, occasion)
GenerateOutfitRecommendation ==
    /\ result = NoCall
    /\ ai_service # NotConstructed
    /\ \E wardrobe_items \in WardrobeLists, weather \in WeatherDicts,
          occasion \in OccasionInputs, exchange \in GeminiExchanges :
           LET call == generate_outfit_recommendation(ai_service, wardrobe_items, weather,
                                                      occasion, exchange)
           IN  /\ result' = [op |-> "generate_outfit_recommendation",
                             args |-> [wardrobe |-> wardrobe_items, weather |-> weather,
                                       occasion |-> occasion],
                             exchange |-> exchange,
                             raised |-> "none", ret |-> call.ret]
               /\ locals' = call.locals
    /\ UNCHANGED <<hf_integration, ai_service, wardrobe, initial, added>>

\* RealAIService.get_weather_data(city)
GetWeatherData ==
    /\ result = NoCall
    /\ ai_service # NotConstructed
    /\ \E city \in Cities, exchange \in WeatherExchanges :
           LET call == get_weather_data(ai_service, city, exchange)
           IN  /\ result' = [op |-> "get_weather_data",
                             args |-> [city |-> city],
                             exchange |-> exchange,
                             raised |-> "none", ret |-> call.ret]
               /\ locals' = call.locals
    /\ UNCHANGED <<hf_integration, ai_service, wardrobe, initial, added>>

\* the host takes the returned value and is ready for its next call
Return ==
    /\ result # NoCall
    /\ result' = NoCall
    /\ locals' = NoLocals
    /\ UNCHANGED <<hf_integration, ai_service, wardrobe, initial, added>>

Next ==
    \/ AddClothingItem
    \/ SuggestOutfit
    \/ LabelClothing
    \/ GetWardrobeSummary
    \/ Return

Spec == Init /\ [][Next]_vars

\* The labeler alone: label_clothing applied to every description argument
NextLabel ==
    \/ LabelClothing
    \/ Return

\* the state ClothingAI.__init__ leaves: the engine holds the sample wardrobe
InitConstructed ==
    Init /\ wardrobe = _initialize_sample_wardrobe

SpecLabel == InitConstructed /\ [][NextLabel]_vars

\* The predictions of the labeler: label_clothing applied to every keyword text
NextKeywords ==
    \/ LabelKeywordText
    \/ Return

SpecKeywords == InitConstructed /\ [][NextKeywords]_vars

\* Requests in natural language: suggest_outfit_from_text applied to every
\* request text, with the integration and the wardrobe in any state they
\* start in
NextRequest ==
    \/ SuggestOutfitFromText
    \/ Return

SpecRequest == Init /\ [][NextRequest]_vars

\* Outerwear: outfits suggested from the sample wardrobe and the jackets added
\* to it
NextOuterwear ==
    \/ AddJacket
    \/ SuggestOutfit
    \/ Return

SpecOuterwear == InitConstructed /\ [][NextOuterwear]_vars

\* Occasions: the sample wardrobe asked for an outfit for each occasion
NextOccasion ==
    \/ SuggestOutfitForOccasions
    \/ Return

SpecOccasion == InitConstructed /\ [][NextOccasion]_vars

\* the state the import of ai_service.py leaves: ai_service = RealAIService(),
\* with each API key read from the environment or missing
InitService ==
    /\ ai_service \in [gemini_api_key : {None, "AIza-key"},
                        openweather_api_key : {None, "owm-key"}]
    /\ wardrobe = NotConstructed
    /\ initial = NotConstructed
    /\ added = <<>>
    /\ hf_integration = NotConstructed
    /\ result = NoCall
    /\ locals = NoLocals

\* The backend service: the calls the HTTP handlers make on ai_service
NextService ==
    \/ AnalyzeClothingImage
    \/ GenerateOutfitRecommendation
    \/ GetWeatherData
    \/ Return

SpecService == InitService /\ [][NextService]_vars

---------------------------------------------------------------------------
(* Properties of suggest_outfit *)

\* a suggest_outfit call has returned its dict
Suggested == result.op = "suggest_outfit" /\ result.raised = "none"

\* the number of items of an outfit whose type value is in `types`
CountOfTypes(details, types) ==
    Cardinality({i \in 1..Len(details) : details[i].type \in types})

TopTypes == {"hoodie", "t-shirt", "sweater"}
BottomTypes == {"jeans", "shorts", "pants"}
ShoeTypes == {"sneakers", "boots", "sandals"}

\* C1: the confidence returned by suggest_outfit lies in [0.0, 1.0] and is 0.0
\* exactly when the returned outfit is empty, for every wardrobe, weather, vibe
\* and outcome of the random choices.
C1_ConfidenceInUnitInterval ==
    result.op = "suggest_outfit" =>
        /\ result.raised = "none"
        /\ LET confidence == result.ret.confidence
           IN  /\ confidence.den > 0
               /\ 0 <= confidence.num
               /\ confidence.num <= confidence.den
               /\ (confidence.num = 0 <=> result.ret.outfit = <<>>)

\* a call on the sample wardrobe that returned an outfit of several items
C1_Witness ==
    /\ Suggested
    /\ initial = _initialize_sample_wardrobe
    /\ Len(result.ret.outfit) >= 3
    /\ result.ret.confidence.num > 0

\* C2: with a non-empty wardrobe no returned outfit holds both a dress and a
\* top (hoodie, t-shirt or sweater), whatever the random choices are.
C2_NoDressWithTop ==
    (Suggested /\ wardrobe # <<>>) =>
        ~(/\ CountOfTypes(result.ret.items_details, {"dress"}) > 0
          /\ CountOfTypes(result.ret.items_details, TopTypes) > 0)

\* the candidates hold a dress, a top and a formal item, and the dress was chosen
C2_Witness ==
    /\ Suggested
    /\ initial = _initialize_sample_wardrobe
    /\ \E i \in 1..Len(locals.suitable_items) : is_dress(locals.suitable_items[i])
    /\ \E i \in 1..Len(locals.suitable_items) : is_top(locals.suitable_items[i])
    /\ \E i \in 1..Len(locals.suitable_items) : is_formal(locals.suitable_items[i])
    /\ CountOfTypes(result.ret.items_details, {"dress"}) = 1

\* C3: every returned outfit holds at most one item that is a top or a dress,
\* at most one bottom and none when a dress was chosen, at most one pair of
\* shoes and at most one jacket.
C3_OneItemPerSlot ==
    Suggested =>
        LET details == result.ret.items_details
        IN  /\ CountOfTypes(details, TopTypes \cup {"dress"}) <= 1
            /\ CountOfTypes(details, BottomTypes) <= 1
            /\ (CountOfTypes(details, {"dress"}) > 0 => CountOfTypes(details, BottomTypes) = 0)
            /\ CountOfTypes(details, ShoeTypes) <= 1
            /\ CountOfTypes(details, {"jacket"}) <= 1

\* an outfit with all four slots filled, chosen among several tops and jackets
C3_Witness ==
    /\ Suggested
    /\ initial = _initialize_sample_wardrobe
    /\ Len(SelectSeq(locals.suitable_items, is_top)) >= 2
    /\ Len(SelectSeq(locals.suitable_items, is_outerwear)) >= 2
    /\ LET details == result.ret.items_details
       IN  /\ CountOfTypes(details, TopTypes) = 1
           /\ CountOfTypes(details, BottomTypes) = 1
           /\ CountOfTypes(details, ShoeTypes) = 1
           /\ CountOfTypes(details, {"jacket"}) = 1

---------------------------------------------------------------------------
(* Properties of the vibe filter, on the lists suggest_outfit passes to it and
   gets back *)

\* the positions of `items` the strict rule of `vibe` keeps
StrictlyKept(items, vibe) ==
    {i \in 1..Len(items) : passes_vibe_rules(items[i], vibe_rules_get(vibe))}

\* the positions of `items` with formality_level >= 6
SmartCasual(items) ==
    {i \in 1..Len(items) : items[i].formality_level >= 6}

\* the sublist of `items` at the positions `kept`
Sublist(items, kept) ==
    SelectSeq([i \in 1..Len(items) |-> [pos |-> i, item |-> items[i]]],
              LAMBDA e : e.pos \in kept)

ItemsOf(entries) == [i \in 1..Len(entries) |-> entries[i].item]

Professional == <<"p","r","o","f","e","s","s","i","o","n","a","l">>
Business == <<"b","u","s","i","n","e","s","s">>

\* C4: vibe filtering never empties the candidate set: a non-empty
\* weather-filtered list gives a non-empty result, and when neither the strict
\* rule nor the professional/business relaxation keeps an item the result is
\* the weather-filtered list unchanged.
C4_VibeFilterNeverEmpties ==
    result.op = "suggest_outfit" =>
        LET items == locals.weather_items
            vibe == lower(result.args.vibe)
            relaxation == IF vibe \in {Professional, Business} THEN SmartCasual(items) ELSE {}
        IN  /\ items # <<>> => locals.suitable_items # <<>>
            /\ (StrictlyKept(items, vibe) = {} /\ relaxation = {})
                   => locals.suitable_items = items

\* a professional request for which neither the strict rule nor the relaxation
\* keeps any of the weather-filtered items
C4_Witness ==
    /\ result.op = "suggest_outfit"
    /\ initial = _initialize_sample_wardrobe
    /\ lower(result.args.vibe) = Professional
    /\ locals.weather_items # <<>>
    /\ StrictlyKept(locals.weather_items, Professional) = {}
    /\ SmartCasual(locals.weather_items) = {}
    /\ locals.suitable_items = locals.weather_items

\* C5: for vibe professional or business, when no weather-filtered item passes
\* the strict rule and some has formality_level >= 6, the candidates are exactly
\* the weather-filtered items with formality_level >= 6; for every other vibe
\* the candidates are the strictly kept items, or all items when none is kept.
C5_ProfessionalRelaxation ==
    result.op = "suggest_outfit" =>
        LET items == locals.weather_items
            vibe == lower(result.args.vibe)
            strict == StrictlyKept(items, vibe)
        IN  /\ (vibe \in {Professional, Business} /\ strict = {} /\ SmartCasual(items) # {})
                   => locals.suitable_items = ItemsOf(Sublist(items, SmartCasual(items)))
            /\ vibe \notin {Professional, Business}
                   => locals.suitable_items =
                          IF strict # {} THEN ItemsOf(Sublist(items, strict)) ELSE items

\* a professional request answered by the relaxation: some but not all of the
\* weather-filtered items have formality_level >= 6, and one of them is not formal
C5_Witness ==
    /\ result.op = "suggest_outfit"
    /\ initial = _initialize_sample_wardrobe
    /\ lower(result.args.vibe) \in {Professional, Business}
    /\ StrictlyKept(locals.weather_items, lower(result.args.vibe)) = {}
    /\ SmartCasual(locals.weather_items) # {}
    /\ Len(locals.suitable_items) < Len(locals.weather_items)
    /\ \E i \in 1..Len(locals.suitable_items) : locals.suitable_items[i].style # "FORMAL"

---------------------------------------------------------------------------
(* Properties of the weather and vibe arguments *)

\* the seven band tokens
BandTokens ==
    { <<"h","o","t">>, <<"w","a","r","m">>, <<"m","i","l","d">>, <<"c","o","o","l">>,
      <<"c","o","l","d">>, <<"r","a","i","n","y">>, <<"s","n","o","w","y">> }

\* `text` is the lower-case `token` up to the case of its letters
MatchesIgnoringCase(text, token) ==
    /\ Len(text) = Len(token)
    /\ \A i \in 1..Len(token) :
           \/ text[i] = token[i]
           \/ text[i] \in DOMAIN UpperToLower /\ UpperToLower[text[i]] = token[i]

\* C6: the weather string is matched case-insensitively against the seven band
\* tokens, and a string that matches none of them filters the wardrobe exactly
\* as "mild" does.
C6_WeatherDefaultsToMild ==
    result.op = "suggest_outfit" =>
        LET matching == {token \in BandTokens : MatchesIgnoringCase(result.args.weather, token)}
        IN  IF matching # {}
            THEN \A token \in matching :
                     /\ WeatherTypeValue[locals.weather_enum] = token
                     /\ locals.weather_items =
                            _filter_items_by_weather(wardrobe, weather_enum_of(token))
            ELSE /\ locals.weather_enum = "MILD"
                 /\ locals.weather_items =
                        _filter_items_by_weather(wardrobe, weather_enum_of(<<"m","i","l","d">>))

\* a weather string that is no band token, answered from the mild items
C6_Witness ==
    /\ Suggested
    /\ initial = _initialize_sample_wardrobe
    /\ \A token \in BandTokens : ~MatchesIgnoringCase(result.args.weather, token)
    /\ result.args.weather # <<>>
    /\ locals.weather_items # <<>>
    /\ \A i \in 1..Len(locals.weather_items) :
           in_list("MILD", locals.weather_items[i].weather_suitability)
    /\ result.ret.outfit # <<>>

\* the vibe strings that have a rule
RuleNames ==
    { <<"c","a","s","u","a","l">>, Professional, Business,
      <<"t","r","e","n","d","y">>, <<"s","p","o","r","t","y">> }

\* C7: suggest_outfit never fails, whatever the weather and vibe strings are,
\* and a vibe without an entry in the rule table (after lower-casing) filters
\* nothing: the candidates are the weather-filtered wardrobe.
C7_NeverFailsUnknownVibeUnfiltered ==
    result.op = "suggest_outfit" =>
        /\ result.raised = "none"
        /\ lower(result.args.vibe) \notin RuleNames
               => locals.suitable_items = locals.weather_items

\* a call with a vibe that has no rule and a weather that is no band: it
\* returned, and items the casual rule would drop are among the candidates
C7_Witness ==
    /\ Suggested
    /\ initial = _initialize_sample_wardrobe
    /\ lower(result.args.vibe) \notin RuleNames
    /\ \A token \in BandTokens : ~MatchesIgnoringCase(result.args.weather, token)
    /\ locals.suitable_items = locals.weather_items
    /\ \E i \in 1..Len(locals.suitable_items) : locals.suitable_items[i].style # "CASUAL"

---------------------------------------------------------------------------
(* Properties of the wardrobe store *)

\* the items list get_wardrobe_summary gives for a list of ClothingItem
SummaryItems(items) ==
    [i \in 1..Len(items) |->
        [name |-> items[i].name, type |-> ClothingTypeValue[items[i].type],
         style |-> StyleValue[items[i].style], color |-> items[i].color]]

\* C8: after any sequence of add_clothing_item, suggest_outfit and
\* label_clothing calls the wardrobe is the initial wardrobe followed by the
\* added items in call order, duplicates kept, and that is the items list of
\* get_wardrobe_summary; suggest_outfit and label_clothing, which add nothing,
\* leave the wardrobe as it is.
C8_WardrobeIsInitialPlusAdded ==
    /\ wardrobe = initial \o added
    /\ result.op = "get_wardrobe_summary" =>
           /\ result.ret.items = SummaryItems(initial \o added)
           /\ result.ret.total_items = Len(initial) + Len(added)

\* a summary of the sample wardrobe after the same item was added twice
C8_Witness ==
    /\ result.op = "get_wardrobe_summary"
    /\ initial = _initialize_sample_wardrobe
    /\ Len(added) = 2
    /\ added[1] = added[2]
    /\ result.ret.total_items = Len(initial) + 2

---------------------------------------------------------------------------
(* Properties of the type detection of label_clothing_from_text *)

\* a label_clothing call has returned its dict
Labelled == result.op = "label_clothing" /\ result.raised = "none"

\* the positions, in the keyword table, of the types one of whose keywords
\* occurs in the lower-cased description
TypesWithKeyword(description) ==
    {i \in 1..Len(clothing_keywords) :
         \E k \in 1..Len(clothing_keywords[i].keywords) :
             in_str(clothing_keywords[i].keywords[k], lower(description))}

\* C9 as stated: a description that contains a keyword of a garment type is
\* labelled with that type.
C9_EveryKeywordTypeDetected ==
    Labelled =>
        \A i \in TypesWithKeyword(result.description) :
            result.ret.type = ClothingTypeValue[clothing_keywords[i].type]

\* C9 (amended): a description that contains a keyword of a garment type and no
\* keyword of a type declared earlier is labelled with that type.
C9_EarliestKeywordTypeDetected ==
    Labelled =>
        \A i \in TypesWithKeyword(result.description) :
            (\A j \in TypesWithKeyword(result.description) : i <= j)
                => result.ret.type = ClothingTypeValue[clothing_keywords[i].type]

\* a description with keywords of two types, labelled with the earlier one
C9_Witness ==
    /\ Labelled
    /\ Cardinality(TypesWithKeyword(result.description)) >= 2
    /\ \E i \in TypesWithKeyword(result.description) :
           /\ \A j \in TypesWithKeyword(result.description) : i <= j
           /\ result.ret.type = ClothingTypeValue[clothing_keywords[i].type]

\* the declared order of the garment types, by value
DeclaredOrder ==
    <<"hoodie", "t-shirt", "jeans", "shorts", "jacket", "sweater", "dress", "skirt",
      "pants", "sneakers", "boots", "sandals">>

\* the positions in DeclaredOrder of the types with a keyword in the description
DeclaredWithKeyword(description) ==
    {n \in 1..Len(DeclaredOrder) :
         \E i \in TypesWithKeyword(description) :
             ClothingTypeValue[clothing_keywords[i].type] = DeclaredOrder[n]}

\* C10: the detected type is the first type of the declared order with a
\* keyword in the lower-cased description, and it is "unknown" exactly when no
\* keyword of any type occurs.
C10_FirstDeclaredTypeWins ==
    Labelled =>
        LET hits == DeclaredWithKeyword(result.description)
        IN  /\ (result.ret.type = "unknown" <=> hits = {})
            /\ hits # {} =>
                   \E n \in hits : /\ \A m \in hits : n <= m
                                   /\ result.ret.type = DeclaredOrder[n]

\* a description whose only keyword occurs inside a longer word
C10_Witness ==
    /\ Labelled
    /\ result.description = <<"l","a","p","t","o","p">>
    /\ result.ret.type = "t-shirt"

---------------------------------------------------------------------------
(* Properties of the labels of label_clothing_from_text *)

\* C11: labelling the empty description returns type "unknown", no styles,
\* weather suitability [mild], formality 5, warmth 5 and confidence 0.0; the
\* zero word count raises nothing.
C11_EmptyDescriptionLabel ==
    (result.op = "label_clothing" /\ result.description = <<>>) =>
        /\ result.raised = "none"
        /\ result.ret = [type |-> "unknown",
                         styles |-> <<>>,
                         weather_suitability |-> << <<"m","i","l","d">> >>,
                         formality_level |-> 5,
                         warmth_rating |-> 5,
                         confidence |-> [num |-> 0, den |-> 1]]

\* the empty description was labelled, with no word to count
C11_Witness ==
    /\ Labelled
    /\ result.description = <<>>
    /\ split(lower(result.description)) = <<>>
    /\ result.ret.confidence.num = 0

\* the formal keywords, and the casual keywords, that occur in the lower-cased
\* description
FormalPresent(description) ==
    {k \in 1..Len(formal_keywords) : in_str(formal_keywords[k], lower(description))}

CasualPresent(description) ==
    {k \in 1..Len(casual_keywords) : in_str(casual_keywords[k], lower(description))}

\* the description with one more word at its end
WithWord(description, word) ==
    IF description = <<>> THEN word ELSE description \o <<" ">> \o word

\* longer is description with exactly the formal keyword k added to the
\* keywords present
AddsFormalKeyword(description, longer, k) ==
    /\ k \notin FormalPresent(description)
    /\ FormalPresent(longer) = FormalPresent(description) \cup {k}
    /\ CasualPresent(longer) = CasualPresent(description)

\* C12: adding one more formal keyword to a description, the other keywords
\* staying as they are, never lowers the formality score.
C12_FormalityMonotonic ==
    Labelled =>
        \A k \in 1..Len(formal_keywords) :
            LET longer == WithWord(result.description, formal_keywords[k])
            IN  AddsFormalKeyword(result.description, longer, k) =>
                    label_clothing_from_text(longer).formality_level
                        >= result.ret.formality_level

\* a casual description whose score rises to neutral with one formal keyword
C12_Witness ==
    /\ Labelled
    /\ Cardinality(CasualPresent(result.description)) = 2
    /\ Cardinality(FormalPresent(result.description)) = 1
    /\ result.ret.formality_level = 1
    /\ \E k \in 1..Len(formal_keywords) :
           LET longer == WithWord(result.description, formal_keywords[k])
           IN  /\ AddsFormalKeyword(result.description, longer, k)
               /\ label_clothing_from_text(longer).formality_level = 5

\* C13: with F formal and C casual keywords present, the formality score is
\* min(7 + F, 10) when F > C, max(3 - C, 1) when C > F and 5 when F = C, and
\* it is an integer from 1 to 10.
C13_FormalityFormula ==
    Labelled =>
        LET F == Cardinality(FormalPresent(result.description))
            C == Cardinality(CasualPresent(result.description))
        IN  /\ result.ret.formality_level \in 1..10
            /\ F > C => result.ret.formality_level = min2(7 + F, 10)
            /\ C > F => result.ret.formality_level = max2(3 - C, 1)
            /\ F = C => result.ret.formality_level = 5

\* a description with more formal keywords than the cap of 10 leaves room for
C13_Witness ==
    /\ Labelled
    /\ Cardinality(FormalPresent(result.description)) >= 4
    /\ Cardinality(CasualPresent(result.description)) = 3
    /\ result.ret.formality_level = 10

\* the bands one of whose weather keywords occurs in the lower-cased
\* description, by position in the keyword table
BandsPresent(description) ==
    {i \in 1..Len(weather_keywords) :
         any_in(weather_keywords[i].keywords, lower(description))}

\* the elements of a list
Elements(list) == {list[i] : i \in 1..Len(list)}

\* C14: the weather suitability is never empty: it is the bands with a
\* matching weather keyword, and when no band matches it is [cool, cold] if
\* the text contains hoodie, sweater or jacket, otherwise [hot, warm] if it
\* contains t-shirt, shorts or sandals, otherwise [mild].
C14_WeatherSuitabilityNeverEmpty ==
    Labelled =>
        LET text == lower(result.description)
            bands == BandsPresent(result.description)
            suitability == result.ret.weather_suitability
        IN  /\ suitability # <<>>
            /\ bands # {} =>
                   /\ Elements(suitability) =
                          {WeatherTypeValue[weather_keywords[i].weather] : i \in bands}
                   /\ Len(suitability) = Cardinality(bands)
            /\ bands = {} =>
                   suitability =
                       IF any_in(<< <<"h","o","o","d","i","e">>, <<"s","w","e","a","t","e","r">>, <<"j","a","c","k","e","t">> >>, text)
                       THEN << <<"c","o","o","l">>, <<"c","o","l","d">> >>
                       ELSE IF any_in(<< <<"t","-","s","h","i","r","t">>, <<"s","h","o","r","t","s">>, <<"s","a","n","d","a","l","s">> >>, text)
                       THEN << <<"h","o","t">>, <<"w","a","r","m">> >>
                       ELSE << <<"m","i","l","d">> >>

\* no band keyword, a garment word of each default: the first default wins
C14_Witness ==
    /\ Labelled
    /\ BandsPresent(result.description) = {}
    /\ in_str(<<"s","w","e","a","t","e","r">>, lower(result.description))
    /\ in_str(<<"s","a","n","d","a","l","s">>, lower(result.description))
    /\ result.ret.weather_suitability = << <<"c","o","o","l">>, <<"c","o","l","d">> >>

---------------------------------------------------------------------------
(* Properties of the requests in natural language *)

\* a suggest_outfit_from_text call has ended
Requested == result.op = "suggest_outfit_from_text"

\* the rule-based parser chose the arguments of suggest_outfit
RuleParsed == Requested /\ locals.parser = "_fallback_text_parsing"

\* the lower-cased request contains a word of the list
Cue(words) == any_in(words, lower(result.request_text))

C17_OccasionParsedAndPassed ==
    Requested =>
        /\ locals.occasion = _extract_occasion_from_text(result.request_text)
        /\ result.request_text = <<"W","h","a","t"," ","s","h","o","u","l","d"," ","I"," ","w","e","a","r"," ","f","o","r"," ","a"," ","p","r","o","f","e","s","s","i","o","n","a","l"," ","b","u","s","i","n","e","s","s"," ","m","e","e","t","i","n","g","?">> =>
               /\ locals.weather = <<"m","i","l","d">>
               /\ locals.vibe = <<"b","u","s","i","n","e","s","s">>
               /\ locals.occasion = "work"

\* C18: suggest_outfit_from_text returns what suggest_outfit returned for the
\* parsed arguments; when the integration is unavailable or its analysis is an
\* error dict, the rule-based parser chose the arguments, and no error dict is
\* returned.
C18_AlwaysAnOutfitResult ==
    Requested =>
        /\ result.raised = "none"
        /\ "error" \notin DOMAIN result.ret
        /\ \E rnd \in RandomDraws(locals.suitable_items) :
               LET call == suggest_outfit(wardrobe, locals.weather, locals.vibe,
                                          locals.occasion, rnd)
               IN  /\ call.raised = "none"
                   /\ \A key \in DOMAIN call.ret : result.ret[key] = call.ret[key]
        /\ ~hf_integration.available => RuleParsed
        /\ ("analysis" \in DOMAIN locals /\ "error" \in DOMAIN locals.analysis) => RuleParsed

\* the analysis of an available integration failed and an outfit of the
\* rule-based path was returned
C18_Witness ==
    /\ Requested
    /\ hf_integration.available
    /\ "analysis" \in DOMAIN locals
    /\ "error" \in DOMAIN locals.analysis
    /\ RuleParsed
    /\ result.ret.outfit # <<>>

---------------------------------------------------------------------------
(* Properties of RealAIService *)

\* an analyze_clothing_image call has ended
Analyzed == result.op = "analyze_clothing_image"

\* the Gemini API was asked and its reply is the text of the exchange
Replied ==
    /\ ai_service.gemini_api_key # None
    /\ ~unpack_raises(result.args.image_data)
    /\ result.exchange.outcome = "text"
    /\ result.exchange.text # <<>>

\* the reply holds a JSON object, which json.loads parses
ParsedReply ==
    /\ Replied
    /\ json_slice(result.exchange.text) # NoneValue
    /\ json_loads(json_slice(result.exchange.text).str) # JSONDecodeError

\* the parsed reply makes _normalize_analysis raise
NormalizationRaises ==
    /\ ParsedReply
    /\ "raised" \in DOMAIN _normalize_analysis(
                            json_loads(json_slice(result.exchange.text).str),
                            result.args.filename)

\* C19: analyze_clothing_image returns a dict and no error; with no API key,
\* a failed or empty Gemini reply, a reply without a JSON object, a reply with
\* malformed JSON, or an exception during normalization, the dict is the
\* filename-based fallback analysis of the given filename.
C19_ExternalFailureIsNotFatal ==
    Analyzed =>
        /\ result.raised = "none"
        /\ "error" \notin DOMAIN result.ret
        /\ (~ParsedReply \/ NormalizationRaises) =>
               result.ret = _fallback_analysis(result.args.filename)

\* a reply whose JSON object parses but cannot be normalized, answered with
\* the fallback analysis of a filename that names a colour and a garment
C19_Witness ==
    /\ Analyzed
    /\ NormalizationRaises
    /\ result.args.filename = <<"b","l","u","e","_","j","e","a","n","s",".","j","p","g">>
    /\ result.ret.description = "Filename-based fallback analysis"
    /\ result.ret.category = <<"b","o","t","t","o","m","s">>

\* C20 as stated: an empty wardrobe is not reported as an error: suggest_outfit
\* on an engine with an empty wardrobe returns an empty outfit with confidence
\* 0.0, and generate_outfit_recommendation called with an empty wardrobe list
\* returns a recommendation with an empty outfit and no error value.
C20_EmptyWardrobeIsNotAnError ==
    /\ (result.op = "suggest_outfit" /\ wardrobe = <<>>) =>
           /\ result.raised = "none"
           /\ result.ret.outfit = <<>>
           /\ result.ret.confidence = [num |-> 0, den |-> 1]
    /\ (result.op = "generate_outfit_recommendation" /\ result.args.wardrobe = <<>>) =>
           /\ result.raised = "none"
           /\ "error" \notin DOMAIN result.ret
           /\ result.ret.outfit = <<>>

\* the categories and the colors of the wardrobe
SupportedCategories ==
    { <<"t","o","p","s">>, <<"b","o","t","t","o","m","s">>, <<"d","r","e","s","s","e","s">>, <<"s","h","o","e","s">>, <<"a","c","c","e","s","s","o","r","i","e","s">> }

SupportedColors ==
    { <<"b","l","a","c","k">>, <<"w","h","i","t","e">>, <<"r","e","d">>, <<"b","l","u","e">>, <<"g","r","e","e","n">>, <<"y","e","l","l","o","w">>, <<"p","u","r","p","l","e">>,
      <<"p","i","n","k">>, <<"b","r","o","w","n">>, <<"g","r","a","y">>, <<"o","r","a","n","g","e">> }

\* C21: every analysis analyze_clothing_image returns, normalized from the
\* reply of the model or derived from the filename, has one of the five
\* categories and one of the eleven colors.
C21_CategoryAndColorSupported ==
    Analyzed =>
        /\ result.ret.category \in SupportedCategories
        /\ result.ret.color \in SupportedColors

\* a reply normalized although its category and its color are not supported
C21_Witness ==
    /\ Analyzed /\ ParsedReply /\ ~NormalizationRaises
    /\ LET data == json_loads(json_slice(result.exchange.text).str)
       IN  /\ "category" \in DOMAIN data /\ "color" \in DOMAIN data
           /\ data.category = [str |-> <<"o","u","t","e","r","w","e","a","r">>]
           /\ data.color = [str |-> <<"t","u","r","q","u","o","i","s","e">>]
    /\ result.ret.category = <<"a","c","c","e","s","s","o","r","i","e","s">>
    /\ result.ret.color \in SupportedColors \ { <<"g","r","a","y">> }

---------------------------------------------------------------------------
(* Properties of the outfit that suggest_outfit combines, on the candidates
   and the outfit of the call (its local variables) *)

\* the elements of a list
Members(list) == {list[i] : i \in 1..Len(list)}

\* C22: when a weather-suitable item passes the strict rule of the requested
\* vibe, the candidates are exactly the weather-suitable items that pass it,
\* and every item of the outfit is within the formality bounds of the rule,
\* has a type outside avoid_types, a style inside a non-empty preferred_styles
\* and a style outside avoid_styles.
C22_StrictRuleRespected ==
    result.op = "suggest_outfit" =>
        LET items == locals.weather_items
            vibe == lower(result.args.vibe)
            rules == vibe_rules_get(vibe)
            strict == StrictlyKept(items, vibe)
            has(key) == key \in DOMAIN rules
        IN  strict # {} =>
                /\ locals.suitable_items = ItemsOf(Sublist(items, strict))
                /\ \A item \in Members(locals.outfit) :
                       /\ has("min_formality") => item.formality_level >= rules.min_formality
                       /\ has("max_formality") => item.formality_level <= rules.max_formality
                       /\ has("avoid_types") => item.type \notin Members(rules.avoid_types)
                       /\ (has("preferred_styles") /\ rules.preferred_styles # <<>>)
                              => item.style \in Members(rules.preferred_styles)
                       /\ has("avoid_styles") => item.style \notin Members(rules.avoid_styles)

\* a business request on the sample wardrobe: some weather-suitable items pass
\* the rule, others do not, and the outfit has several items
C22_Witness ==
    /\ Suggested
    /\ initial = _initialize_sample_wardrobe
    /\ lower(result.args.vibe) = Business
    /\ StrictlyKept(locals.weather_items, Business) # {}
    /\ Cardinality(StrictlyKept(locals.weather_items, Business)) < Len(locals.weather_items)
    /\ Len(locals.outfit) >= 3

\* the number of items of a list that pass a test
CountOf(list, Test(_)) == Len(SelectSeq(list, Test))

\* the outfit holds one dress and neither a top nor a bottom
DressOutfit(outfit) ==
    /\ CountOf(outfit, is_dress) = 1
    /\ CountOf(outfit, is_top) = 0
    /\ CountOf(outfit, is_bottom) = 0

\* the outfit holds no dress, and a top and a bottom as far as the candidates
\* hold one
SeparatesOutfit(outfit, candidates) ==
    /\ CountOf(outfit, is_dress) = 0
    /\ CountOf(outfit, is_top) = IF CountOf(candidates, is_top) > 0 THEN 1 ELSE 0
    /\ CountOf(outfit, is_bottom) = IF CountOf(candidates, is_bottom) > 0 THEN 1 ELSE 0

\* C23: when the candidates hold a dress and no item with formality_level >= 7
\* the outfit holds exactly one dress and neither a top nor a bottom, whatever
\* the random choices are; when they hold a dress and a formal item, the
\* random choices can give the dress outfit and can give the top + bottom
\* outfit.
C23_DressWithoutFormalItems ==
    result.op = "suggest_outfit" =>
        LET candidates == locals.suitable_items
        IN  CountOf(candidates, is_dress) > 0 =>
                IF CountOf(candidates, is_formal) = 0
                THEN DressOutfit(locals.outfit)
                ELSE /\ DressOutfit(locals.outfit) \/ SeparatesOutfit(locals.outfit, candidates)
                     /\ \E rnd \in RandomDraws(candidates) :
                            DressOutfit(_create_outfit_combination(candidates, rnd))
                     /\ \E rnd \in RandomDraws(candidates) :
                            SeparatesOutfit(_create_outfit_combination(candidates, rnd),
                                            candidates)

\* the candidates hold a dress, tops, bottoms and no formal item, and the call
\* returned the dress with shoes
C23_Witness ==
    /\ Suggested
    /\ initial = _initialize_sample_wardrobe
    /\ CountOf(locals.suitable_items, is_dress) > 0
    /\ CountOf(locals.suitable_items, is_formal) = 0
    /\ CountOf(locals.suitable_items, is_top) > 0
    /\ CountOf(locals.suitable_items, is_bottom) > 0
    /\ DressOutfit(locals.outfit)
    /\ CountOf(locals.outfit, is_shoes) = 1

\* C24: formal items are preferred slot by slot: for each of the slots top,
\* bottom, shoes and outerwear, when the candidates hold an item of the slot
\* with formality_level >= 7, every item the outfit holds in that slot has
\* formality_level >= 7, whatever the random choices are.
C24_FormalPreferredBySlot ==
    result.op = "suggest_outfit" =>
        LET candidates == Members(locals.suitable_items)
            outfit == Members(locals.outfit)
            preferred(in_slot(_)) ==
                (\E item \in candidates : in_slot(item) /\ item.formality_level >= 7)
                    => \A item \in outfit : in_slot(item) => item.formality_level >= 7
        IN  /\ preferred(is_top)
            /\ preferred(is_bottom)
            /\ preferred(is_shoes)
            /\ preferred(is_outerwear)

\* candidates with a formal and a less formal item among the tops, the bottoms
\* and the jackets, and an outfit that fills the four slots
C24_Witness ==
    /\ Suggested
    /\ initial = _initialize_sample_wardrobe
    /\ LET candidates == Members(locals.suitable_items)
           mixed(in_slot(_)) ==
               /\ \E item \in candidates : in_slot(item) /\ item.formality_level >= 7
               /\ \E item \in candidates : in_slot(item) /\ item.formality_level < 7
       IN  mixed(is_top) /\ mixed(is_bottom) /\ mixed(is_outerwear)
    /\ CountOf(locals.outfit, is_top) = 1
    /\ CountOf(locals.outfit, is_bottom) = 1
    /\ CountOf(locals.outfit, is_shoes) = 1
    /\ CountOf(locals.outfit, is_outerwear) = 1

\* the random choices of the call's candidates can leave the jacket out and
\* can add one
CoinDecidesOuterwear ==
    /\ \E rnd \in RandomDraws(locals.suitable_items) :
           CountOf(_create_outfit_combination(locals.suitable_items, rnd), is_outerwear) = 0
    /\ \E rnd \in RandomDraws(locals.suitable_items) :
           CountOf(_create_outfit_combination(locals.suitable_items, rnd), is_outerwear) = 1

\* C25 as stated: when the requested band is cold or rainy and the candidates
\* hold a jacket, or the candidates hold a jacket with formality_level >= 7,
\* the outfit holds exactly one jacket whatever the coin flip is; in every
\* other case with a jacket among the candidates the coin flip decides.
C25_OuterwearByBandOrFormality ==
    result.op = "suggest_outfit" =>
        LET jackets == {item \in Members(locals.suitable_items) : is_outerwear(item)}
            needed == \/ locals.weather_enum \in {"COLD", "RAINY"} /\ jackets # {}
                      \/ \E item \in jackets : item.formality_level >= 7
        IN  /\ needed => CountOf(locals.outfit, is_outerwear) = 1
            /\ (~needed /\ jackets # {}) => CoinDecidesOuterwear

\* C25, amended: when a jacket among the candidates is suitable for cold or
\* rainy weather (as every jacket is when the requested band is cold or rainy),
\* or a jacket among the candidates has formality_level >= 7, the outfit holds
\* exactly one jacket whatever the coin flip is; in every other case with a
\* jacket among the candidates the coin flip decides.
C25_OuterwearBySuitabilityOrFormality ==
    result.op = "suggest_outfit" =>
        LET jackets == {item \in Members(locals.suitable_items) : is_outerwear(item)}
            by_band == locals.weather_enum \in {"COLD", "RAINY"} /\ jackets # {}
            needed == \/ \E item \in jackets :
                             \/ in_list("COLD", item.weather_suitability)
                             \/ in_list("RAINY", item.weather_suitability)
                      \/ \E item \in jackets : item.formality_level >= 7
        IN  /\ by_band => needed
            /\ needed => CountOf(locals.outfit, is_outerwear) = 1
            /\ (~needed /\ jackets # {}) => CoinDecidesOuterwear

\* a request for cool weather, after a jacket was added, whose only candidate
\* jacket is the rain jacket: the band is neither cold nor rainy, no jacket is
\* formal, and the jacket is in the outfit
C25_Witness ==
    /\ Suggested
    /\ added # <<>>
    /\ locals.weather_enum = "COOL"
    /\ \A item \in Members(locals.suitable_items) :
           is_outerwear(item) => item.name = "Rain Jacket"
    /\ \E item \in Members(locals.outfit) : item.name = "Rain Jacket"
    /\ ~CoinDecidesOuterwear

\* C28: every item of an outfit suggest_outfit returns is an item of the
\* current wardrobe whose weather_suitability contains the band the weather
\* string was normalized to, also when the vibe filter fell back to the relaxed
\* rule or to the unfiltered list; hence the confidence of every non-empty
\* outfit is exactly 1.0.
C28_OutfitSuitsRequestedBand ==
    Suggested =>
        /\ \A item \in Members(locals.outfit) :
               /\ item \in Members(wardrobe)
               /\ in_list(locals.weather_enum, item.weather_suitability)
        /\ result.ret.outfit = [i \in 1..Len(locals.outfit) |-> locals.outfit[i].name]
        /\ result.ret.outfit # <<>> =>
               /\ result.ret.confidence.den > 0
               /\ result.ret.confidence.num = result.ret.confidence.den

\* a business request after an item was added, for which no weather-suitable
\* item passes the strict rule or the relaxed one: the outfit is combined from
\* the unfiltered weather-suitable items
C28_Witness ==
    /\ Suggested
    /\ initial = _initialize_sample_wardrobe
    /\ added # <<>>
    /\ lower(result.args.vibe) = Business
    /\ StrictlyKept(locals.weather_items, Business) = {}
    /\ SmartCasual(locals.weather_items) = {}
    /\ Len(locals.outfit) >= 2
    /\ result.ret.confidence = [num |-> Len(locals.outfit), den |-> Len(locals.outfit)]

\* C29: the occasion argument does not influence the recommendation: calls of
\* suggest_outfit with the same wardrobe, weather, vibe and outcomes of the
\* random choices but different occasions return the same outfit, the same
\* reasoning and the same confidence (and the same dict altogether).
C29_OccasionHasNoInfluence ==
    result.op = "suggest_outfit for occasions" =>
        \A first \in OccasionInputs, second \in OccasionInputs :
            /\ result.calls[first].raised = "none"
            /\ result.calls[first].ret.outfit = result.calls[second].ret.outfit
            /\ result.calls[first].ret.reasoning = result.calls[second].ret.reasoning
            /\ result.calls[first].ret.confidence = result.calls[second].ret.confidence
            /\ result.calls[first] = result.calls[second]

\* a professional request answered for the occasions general and work with
\* the same outfit of several items, chosen among candidates that hold both
\* formal and less formal items
C29_Witness ==
    /\ result.op = "suggest_outfit for occasions"
    /\ {"general", "work"} \subseteq DOMAIN result.calls
    /\ Len(result.calls["work"].ret.outfit) >= 3
    /\ result.calls["general"].ret.outfit = result.calls["work"].ret.outfit
    /\ \E item \in Members(locals.candidates) : is_formal(item)
    /\ \E item \in Members(locals.candidates) : ~is_formal(item)

\* C26 as stated: the weather rule table is respected: no item of the outfit
\* has a type in the avoid_types of the rule of the requested band, a
\* warmth_rating above its max_warmth or a warmth_rating below its min_warmth
\* (hot: no hoodie, jacket or boots and no warmth above 4; cold: no shorts or
\* sandals and no warmth below 6).
C26_WeatherRulesRespected ==
    result.op = "suggest_outfit" =>
        \A n \in 1..Len(weather_rules) :
            LET rules == weather_rules[n].rules
            IN  locals.weather_enum = weather_rules[n].weather =>
                    \A item \in Members(locals.outfit) :
                        /\ item.type \notin Members(rules.avoid_types)
                        /\ "max_warmth" \in DOMAIN rules
                               => item.warmth_rating <= rules.max_warmth
                        /\ "min_warmth" \in DOMAIN rules
                               => item.warmth_rating >= rules.min_warmth

---------------------------------------------------------------------------
(* Properties of the recommendations of RealAIService *)

\* C27 as stated: the rule-based recommendation selects one item from each
\* category if possible: for each of tops, bottoms and shoes of which the
\* wardrobe holds an item, the outfit holds exactly one item of that category,
\* the first one in wardrobe order, and the outfit lists them in the order
\* tops, bottoms, shoes, whatever the temperature is.
C27_OneItemPerCategory ==
    (result.op = "generate_outfit_recommendation" /\ locals.step = "fallback") =>
        LET wardrobe_items == result.args.wardrobe
            of(category) ==
                SelectSeq(wardrobe_items,
                          LAMBDA item : "category" \in DOMAIN item /\ item.category = category)
            held == SelectSeq(<<"tops", "bottoms", "shoes">>,
                              LAMBDA category : of(category) # <<>>)
            outfit == result.ret.outfit
        IN  /\ Len(outfit) = Len(held)
            /\ \A n \in 1..Len(held) :
                   /\ outfit[n].category = held[n]
                   /\ outfit[n].name = IF "name" \in DOMAIN of(held[n])[1]
                                       THEN of(held[n])[1].name
                                       ELSE "Item"

\* C30 as stated: in every result of get_weather_data, from the weather API or
\* from the mock data, weather_category is one of hot, warm, mild, cool, cold
\* and is the band _categorize_weather assigns to the returned temperature
\* (>= 25 hot, >= 20 warm, >= 15 mild, >= 5 cool, else cold).
C30_CategoryMatchesTemperature ==
    result.op = "get_weather_data" =>
        /\ result.ret.weather_category \in {"hot", "warm", "mild", "cool", "cold"}
        /\ result.ret.weather_category =
               _categorize_weather([num |-> result.ret.temperature, den |-> 1],
                                   result.ret.condition)

====
